---------------------------- MODULE Spec2Model ----------------------------
(***************************************************************************)
(* A model of the CBS latency analysis of CoRE-RG/TSNLatencyAnalysis:      *)
(*   - the topology model   (src/analysis/network_components.py),          *)
(*   - the formula engine   (src/analysis/latency_calculation_cbs.py),     *)
(*   - the orchestrator     (src/analysis/network_latency_analysis.py),    *)
(*   - the two scenarios    (src/scenarios/TSSDNSOASmallNetwork.py,        *)
(*                           src/scenarios/UnlimetedBurstRecursion.py).    *)
(*                                                                         *)
(* Units.  The source works in bits, seconds and bits per second with      *)
(* Python floats.  The model works in bits, microseconds and bits per      *)
(* microsecond with exact rationals [n, d], so 100 Mbit/s is 100, 125e-6 s *)
(* is 125 and 48,832,000 bit/s is 6104/125.  Floating-point rounding is    *)
(* not modelled.  A ZeroDivisionError is the rational with denominator 0   *)
(* (Err), which every arithmetic operator propagates, as the exception     *)
(* propagates through the expression that raised it.                       *)
(*                                                                         *)
(* Python objects.  A list that is a default argument value is ONE object  *)
(* shared by every call that omits the argument.  The model keeps the      *)
(* default list of Path.__init__ in the variable defaultLinks.  The        *)
(* Network of a NetworkLatencyAnalysis, built with lists of its own, is    *)
(* net["A"].  A Link object is named by its registry and its (src, dst).   *)
(*                                                                         *)
(* Specifications.  Spec: the registries, built from empty.  PathSpec:     *)
(* links, and paths computed, registered and looked up.  ScenarioSpec: a   *)
(* scenario after construction, idle slopes set and delays asked for.      *)
(* SlopeSpec: a scenario after construction, idle slopes set or computed   *)
(* from the flows, and input links asked for.                              *)
(* BuildSpec: a scenario built step by step and asked for delays at every  *)
(* step.  FormulaSpec: the formula engine alone, on drawn arguments.       *)
(* DefaultsSpec: two Networks built by Network() and the analysis' own.    *)
(***************************************************************************)
EXTENDS Integers, Sequences, FiniteSets, TLC

VARIABLES
    net,            \* registry -> [bridges, nodes, links, flows, paths]
    defaultLinks,   \* the list object that is the default of Path(links=[])
    calcCMI,        \* CBSLatencyCalculator.CMI of the analysis
    last            \* the last call: its name, its arguments, what it returned

vars == <<net, defaultLinks, calcCMI, last>>

-----------------------------------------------------------------------------
(* Exact rationals                                                         *)

RECURSIVE GCD(_, _)
GCD(a, b) ==
    IF b = 0 THEN a ELSE GCD(b, a % b)

Abs(x) ==
    IF x < 0 THEN 0 - x ELSE x

Err ==
    [n |-> 0, d |-> 0]

isErr(x) ==
    x.d = 0

\* n/d with the common factor g taken out and a positive denominator
reduced(n, d, g) ==
    IF d < 0 THEN [n |-> 0 - (n \div g), d |-> 0 - (d \div g)]
    ELSE [n |-> n \div g, d |-> d \div g]

Rat(n, d) ==
    IF d = 0 THEN Err ELSE reduced(n, d, GCD(Abs(n), Abs(d)))

R(i) ==
    [n |-> i, d |-> 1]

\* whole and fractional parts are added apart, so that no intermediate product
\* exceeds the least common denominator
mixed(q, f) ==
    [n |-> q * f.d + f.n, d |-> f.d]

fractionSum(x, y, g) ==
    Rat((x.n % x.d) * (y.d \div g) + (y.n % y.d) * (x.d \div g), (x.d \div g) * y.d)

RAdd(x, y) ==
    IF isErr(x) \/ isErr(y) THEN Err
    ELSE mixed((x.n \div x.d) + (y.n \div y.d), fractionSum(x, y, GCD(x.d, y.d)))

RNeg(x) ==
    IF isErr(x) THEN Err ELSE [n |-> 0 - x.n, d |-> x.d]

RSub(x, y) ==
    RAdd(x, RNeg(y))

\* the product of two fractions that have no common factor crosswise
product(a, b) ==
    [n |-> a.n * b.n, d |-> a.d * b.d]

RMul(x, y) ==
    IF isErr(x) \/ isErr(y) THEN Err
    ELSE product(Rat(x.n, y.d), Rat(y.n, x.d))

RDiv(x, y) ==
    IF isErr(x) \/ isErr(y) \/ y.n = 0 THEN Err
    ELSE RMul(x, Rat(y.d, y.n))

fractionLess(x, y, g) ==
    (x.n % x.d) * (y.d \div g) < (y.n % y.d) * (x.d \div g)

RLess(x, y) ==
    \/ x.n \div x.d < y.n \div y.d
    \/ x.n \div x.d = y.n \div y.d /\ fractionLess(x, y, GCD(x.d, y.d))

RMax(x, y) ==
    IF isErr(x) \/ isErr(y) THEN Err
    ELSE IF RLess(x, y) THEN y ELSE x

RMin(x, y) ==
    IF isErr(x) \/ isErr(y) THEN Err
    ELSE IF RLess(y, x) THEN y ELSE x

\* math.floor and math.ceil: integers (TLA+'s \div rounds down)
RFloor(x) ==
    IF isErr(x) THEN Err ELSE R(x.n \div x.d)

RCeil(x) ==
    IF isErr(x) THEN Err ELSE R(0 - ((0 - x.n) \div x.d))

RECURSIVE RSum(_)
RSum(s) ==
    IF s = <<>> THEN R(0) ELSE RAdd(Head(s), RSum(Tail(s)))

-----------------------------------------------------------------------------
(* Formula engine: CBSLatencyCalculator                                    *)

\* linkspeed, bits per microsecond (100 Mbit/s)
LINKSPEED ==
    100

\* the CMI the analysis is constructed with, microseconds (125e-6 s)
CMI_CONFIG ==
    125

\* switch_delay of the scenarios, microseconds (8e-6 s)
SWITCH_DELAY ==
    8

IFG ==
    96

MIN_PACKET ==
    64

MAX_PACKET ==
    1526

\* the 100 Mbit/s that plenaryFasterMediaV2 divides the linkspeed by
HUNDRED_MBIT ==
    100

MIN_PACKET_BITS_W_IFG ==
    MIN_PACKET * 8 + IFG

ctMaxFrame ==
    MAX_PACKET * 8 + IFG

Keys ==
    {"baStandard", "qStandardL3V1", "qStandardL3V2", "plenary100Mbit",
     "plenaryFasterMedia", "plenaryFasterMediaV2", "qStandardL3V3"}

getEmptyResultDict ==
    [baStandard |-> R(0), qStandardL3V1 |-> R(0), qStandardL3V2 |-> R(0),
     plenary100Mbit |-> R(0), plenaryFasterMedia |-> R(0),
     plenaryFasterMediaV2 |-> R(0), qStandardL3V3 |-> R(0)]

\* a faulty clamp, which keeps a negative term
notClamped(x) ==
    x

\* "if x < 0: x = 0"
notNegative(x) ==
    IF isErr(x) THEN Err ELSE IF RLess(x, R(0)) THEN R(0) ELSE x

\* a faulty baStandard, whose catch-up term is subtracted the other way round
baStandardCatchUpReversed(cmi, idleSlope, streamMaxFrame) ==
    LET tMaxPacket    == RDiv(R(ctMaxFrame), R(LINKSPEED))
        tStreamPacket == RDiv(R(streamMaxFrame - IFG), R(LINKSPEED))
        delayA        == RDiv(RMul(idleSlope, cmi), R(LINKSPEED))
        tClassA       == notNegative(
                             RDiv(RMul(RSub(RDiv(R(streamMaxFrame), R(LINKSPEED)), delayA),
                                       R(LINKSPEED)),
                                  idleSlope))
    IN  RAdd(RAdd(tMaxPacket, tClassA), tStreamPacket)

\* a faulty baStandard, without "if tClassA < 0: tClassA = 0"
baStandardUnclamped(cmi, idleSlope, streamMaxFrame) ==
    LET tMaxPacket    == RDiv(R(ctMaxFrame), R(LINKSPEED))
        tStreamPacket == RDiv(R(streamMaxFrame - IFG), R(LINKSPEED))
        delayA        == RDiv(RMul(idleSlope, cmi), R(LINKSPEED))
        tClassA       == RDiv(RMul(RSub(delayA, RDiv(R(streamMaxFrame), R(LINKSPEED))),
                                   R(LINKSPEED)),
                              idleSlope)
    IN  RAdd(RAdd(tMaxPacket, tClassA), tStreamPacket)

baStandard(cmi, idleSlope, streamMaxFrame) ==
    LET tMaxPacket    == RDiv(R(ctMaxFrame), R(LINKSPEED))
        tStreamPacket == RDiv(R(streamMaxFrame - IFG), R(LINKSPEED))
        delayA        == RDiv(RMul(idleSlope, cmi), R(LINKSPEED))
        tClassA       == notNegative(
                             RDiv(RMul(RSub(delayA, RDiv(R(streamMaxFrame), R(LINKSPEED))),
                                       R(LINKSPEED)),
                                  idleSlope))
    IN  RAdd(RAdd(tMaxPacket, tClassA), tStreamPacket)

\* one pass of "for i in range(nrInputLinks)": i passes are left
RECURSIVE qStandardL3V1Loop(_, _, _, _, _)
qStandardL3V1Loop(i, B0, fan_in_data, idleSlope, classMaxFrame) ==
    IF i <= 0 THEN fan_in_data
    ELSE IF RLess(R(0), B0)
         THEN LET Bi == idleSlope
                  W  == RSub(R(LINKSPEED), RMax(B0, Bi))
                  t1 == RDiv(RMul(RMul(R(ctMaxFrame), idleSlope), R(LINKSPEED)),
                             RMul(W, R(LINKSPEED)))
                  t2 == RDiv(R(classMaxFrame * LINKSPEED), W)
              IN  qStandardL3V1Loop(i - 1, RSub(B0, Bi),
                                    RAdd(fan_in_data, RAdd(t1, t2)),
                                    idleSlope, classMaxFrame)
         ELSE qStandardL3V1Loop(i - 1, B0, RAdd(fan_in_data, R(classMaxFrame)),
                                idleSlope, classMaxFrame)

qStandardL3V1(idleSlope, classMaxFrame, nrInputLinks) ==
    LET qDelayStand  == RDiv(R(ctMaxFrame), R(LINKSPEED))
        fan_in_data  == qStandardL3V1Loop(nrInputLinks, idleSlope, R(0),
                                          idleSlope, classMaxFrame)
        fan_in_delay == RDiv(fan_in_data, R(LINKSPEED))
    IN  RAdd(RAdd(qDelayStand, fan_in_delay), RDiv(R(classMaxFrame), R(LINKSPEED)))

\* "for Bi in inputIdleSlopes"
RECURSIVE qStandardL3V2Loop(_, _, _, _, _)
qStandardL3V2Loop(inputIdleSlopes, B0, fan_in_data, idleSlope, classMaxFrame) ==
    IF inputIdleSlopes = <<>> THEN fan_in_data
    ELSE IF RLess(R(0), B0)
         THEN LET Bi == Head(inputIdleSlopes)
                  W  == RSub(R(LINKSPEED), RMax(B0, Bi))
                  t1 == RDiv(RMul(R(ctMaxFrame), idleSlope), W)
                  t2 == RDiv(R(classMaxFrame * LINKSPEED), W)
              IN  qStandardL3V2Loop(Tail(inputIdleSlopes), RSub(B0, Bi),
                                    RAdd(fan_in_data, RAdd(t1, t2)),
                                    idleSlope, classMaxFrame)
         ELSE qStandardL3V2Loop(Tail(inputIdleSlopes), B0,
                                RAdd(fan_in_data, R(classMaxFrame)),
                                idleSlope, classMaxFrame)

qStandardL3V2(idleSlope, classMaxFrame, inputIdleSlopes) ==
    LET queueing_delay  == RDiv(R(ctMaxFrame), R(LINKSPEED))
        fan_in_data     == qStandardL3V2Loop(inputIdleSlopes, idleSlope, R(0),
                                             idleSlope, classMaxFrame)
        fan_in_delay    == RDiv(fan_in_data, R(LINKSPEED))
        permanent_delay == fan_in_delay
    IN  RAdd(RAdd(queueing_delay, fan_in_delay), permanent_delay)

getMaxReservedPlenary(cmi, idleSlope) ==
    RFloor(RMul(cmi, idleSlope))

plenary100Mbit(cmi, idleSlope, streamMaxFrame, nrInputLinks) ==
    LET maxReserved  == getMaxReservedPlenary(cmi, idleSlope)
        spare        == RSub(maxReserved, R(streamMaxFrame))
        N            == RMin(R(nrInputLinks - 1),
                             RFloor(RDiv(spare, R(MIN_PACKET_BITS_W_IFG))))
        otherPackets == IF RLess(R(0), N)
                        THEN RSub(RMul(R(2), spare), RCeil(RDiv(spare, N)))
                        ELSE R(0)
        qDelayOctets == RAdd(RAdd(R(ctMaxFrame), otherPackets), R(streamMaxFrame))
    IN  RDiv(qDelayOctets, R(LINKSPEED))

plenaryFasterMedia(cmi) ==
    RAdd(cmi, RDiv(R(ctMaxFrame), R(LINKSPEED)))

plenaryFasterMediaV2(cmi, idleSlope, streamMaxFrame) ==
    LET maxReserved     == getMaxReservedPlenary(cmi, idleSlope)
        N               == RDiv(R(LINKSPEED), R(HUNDRED_MBIT))
        streamBits      == notNegative(RCeil(RDiv(RSub(maxReserved, R(streamMaxFrame)), N)))
        sendSlope       == RSub(idleSlope, R(LINKSPEED))
        loCredit        == RDiv(RMul(streamBits, sendSlope), R(LINKSPEED))
        hiCredit        == RDiv(RMul(R(ctMaxFrame), idleSlope), R(LINKSPEED))
        maxBurstSize    == RDiv(RMul(R(LINKSPEED), RSub(loCredit, hiCredit)), sendSlope)
        maxBurstTime    == RDiv(RSub(loCredit, hiCredit), sendSlope)
        totalBitsQueued == RAdd(RMul(N, maxBurstSize),
                                RMul(RFloor(RDiv(maxBurstTime, cmi)), R(streamMaxFrame)))
    IN  RAdd(RSub(RDiv(totalBitsQueued, idleSlope),
                  RSub(maxBurstTime, RDiv(streamBits, R(LINKSPEED)))),
             RDiv(R(ctMaxFrame), R(LINKSPEED)))

\* ZeroDivisionError.  Each formula's divisors, in the order the code divides by
\* them; the formula raises when one of them is zero.
baStandardRaises(idleSlope) ==
    \/ LINKSPEED = 0
    \/ idleSlope.n = 0

RECURSIVE qStandardL3V1LoopRaises(_, _, _)
qStandardL3V1LoopRaises(i, B0, idleSlope) ==
    /\ i > 0
    /\ IF RLess(R(0), B0)
       THEN LET W == RSub(R(LINKSPEED), RMax(B0, idleSlope))
            IN  \/ RMul(W, R(LINKSPEED)).n = 0
                \/ W.n = 0
                \/ qStandardL3V1LoopRaises(i - 1, RSub(B0, idleSlope), idleSlope)
       ELSE qStandardL3V1LoopRaises(i - 1, B0, idleSlope)

qStandardL3V1Raises(idleSlope, nrInputLinks) ==
    \/ LINKSPEED = 0
    \/ qStandardL3V1LoopRaises(nrInputLinks, idleSlope, idleSlope)

RECURSIVE qStandardL3V2LoopRaises(_, _)
qStandardL3V2LoopRaises(inputIdleSlopes, B0) ==
    /\ inputIdleSlopes # <<>>
    /\ IF RLess(R(0), B0)
       THEN \/ RSub(R(LINKSPEED), RMax(B0, Head(inputIdleSlopes))).n = 0
            \/ qStandardL3V2LoopRaises(Tail(inputIdleSlopes),
                                       RSub(B0, Head(inputIdleSlopes)))
       ELSE qStandardL3V2LoopRaises(Tail(inputIdleSlopes), B0)

qStandardL3V2Raises(idleSlope, inputIdleSlopes) ==
    \/ LINKSPEED = 0
    \/ qStandardL3V2LoopRaises(inputIdleSlopes, idleSlope)

plenary100MbitRaises ==
    \/ MIN_PACKET_BITS_W_IFG = 0
    \/ LINKSPEED = 0

plenaryFasterMediaRaises ==
    LINKSPEED = 0

plenaryFasterMediaV2Raises(cmi, idleSlope) ==
    \/ LINKSPEED = 0
    \/ RSub(idleSlope, R(LINKSPEED)).n = 0
    \/ cmi.n = 0
    \/ idleSlope.n = 0

\* sorted(): insertion of x into an ascending list
RECURSIVE insertSorted(_, _)
insertSorted(x, s) ==
    IF s = <<>> THEN <<x>>
    ELSE IF RLess(x, Head(s)) THEN <<x>> \o s
         ELSE <<Head(s)>> \o insertSorted(x, Tail(s))

RECURSIVE sorted(_)
sorted(s) ==
    IF s = <<>> THEN <<>> ELSE insertSorted(Head(s), sorted(Tail(s)))

\* list.reverse()
RECURSIVE reverse(_)
reverse(s) ==
    IF s = <<>> THEN <<>> ELSE Append(reverse(Tail(s)), Head(s))

\* whether runAlgorithmsForPort ends in a ZeroDivisionError: the formulas in call order
runAlgorithmsForPortRaises(cmi, idleSlope, nrInputLinks, inputIdleSlopes) ==
    \/ baStandardRaises(idleSlope)
    \/ qStandardL3V1Raises(idleSlope, nrInputLinks)
    \/ qStandardL3V2Raises(idleSlope, sorted(inputIdleSlopes))
    \/ plenary100MbitRaises
    \/ plenaryFasterMediaRaises
    \/ plenaryFasterMediaV2Raises(cmi, idleSlope)
    \/ qStandardL3V2Raises(idleSlope, reverse(sorted(inputIdleSlopes)))

\* a faulty runAlgorithmsForPort, which hands the input idle slopes to qStandardL3V2 in
\* the order the caller gave them
runAlgorithmsForPortAsGiven(cmi, idleSlope, streamMaxFrame, classMaxFrame, nrInputLinks, inputIdleSlopes) ==
    [raised |-> runAlgorithmsForPortRaises(cmi, idleSlope, nrInputLinks, inputIdleSlopes),
     value  |->
         [baStandard           |-> baStandard(cmi, idleSlope, streamMaxFrame),
          qStandardL3V1        |-> qStandardL3V1(idleSlope, classMaxFrame, nrInputLinks),
          qStandardL3V2        |-> qStandardL3V2(idleSlope, classMaxFrame, inputIdleSlopes),
          plenary100Mbit       |-> plenary100Mbit(cmi, idleSlope, streamMaxFrame,
                                                  nrInputLinks),
          plenaryFasterMedia   |-> plenaryFasterMedia(cmi),
          plenaryFasterMediaV2 |-> plenaryFasterMediaV2(cmi, idleSlope, streamMaxFrame),
          qStandardL3V3        |-> qStandardL3V2(idleSlope, classMaxFrame,
                                                 reverse(inputIdleSlopes))]]

\* [raised, value]: value[key] is the delay of each formula when nothing raised
runAlgorithmsForPort(cmi, idleSlope, streamMaxFrame, classMaxFrame, nrInputLinks, inputIdleSlopes) ==
    [raised |-> runAlgorithmsForPortRaises(cmi, idleSlope, nrInputLinks, inputIdleSlopes),
     value  |->
         [baStandard           |-> baStandard(cmi, idleSlope, streamMaxFrame),
          qStandardL3V1        |-> qStandardL3V1(idleSlope, classMaxFrame, nrInputLinks),
          qStandardL3V2        |-> qStandardL3V2(idleSlope, classMaxFrame,
                                                 sorted(inputIdleSlopes)),
          plenary100Mbit       |-> plenary100Mbit(cmi, idleSlope, streamMaxFrame,
                                                  nrInputLinks),
          plenaryFasterMedia   |-> plenaryFasterMedia(cmi),
          plenaryFasterMediaV2 |-> plenaryFasterMediaV2(cmi, idleSlope, streamMaxFrame),
          qStandardL3V3        |-> qStandardL3V2(idleSlope, classMaxFrame,
                                                 reverse(sorted(inputIdleSlopes)))]]

-----------------------------------------------------------------------------
(* Topology model: Flow, Link, Path, Network                               *)

InSeq(x, s) ==
    \E i \in 1..Len(s) : s[i] = x

Flow(src, dst, size, deadline, period, priority) ==
    [src |-> src, dst |-> dst, size |-> size, deadline |-> deadline,
     period |-> period, priority |-> priority]

Link(src, dst, rate, delay, idleSlope) ==
    [src |-> src, dst |-> dst, rate |-> rate, delay |-> delay, idleSlope |-> idleSlope]

isLinkFor(l, src, dst) ==
    l.src = src /\ l.dst = dst

\* a Link object, as a Path's list holds it: the registry that owns it and its pair
LinkRef(r, l) ==
    [reg |-> r, src |-> l.src, dst |-> l.dst]

\* Network(bridges=[], nodes=[], links=[], flows=[], paths=[])
Network ==
    [bridges |-> <<>>, nodes |-> <<>>, links |-> <<>>, flows |-> <<>>, paths |-> <<>>]

\* Path(src, dst): links is the default list object, shared
PathDefault(src, dst) ==
    [src |-> src, dst |-> dst, shared |-> TRUE, own |-> <<>>]

\* Path(src, dst, links) with a list of the caller's
PathOwn(src, dst, links) ==
    [src |-> src, dst |-> dst, shared |-> FALSE, own |-> links]

\* path.links: the list the Path object refers to
linksOf(p, dl) ==
    IF p.shared THEN dl ELSE p.own

\* Path.addLinks on the list ls
addLinks(ls, ref) ==
    IF \E i \in 1..Len(ls) : isLinkFor(ls[i], ref.src, ref.dst)
    THEN ls
    ELSE Append(ls, ref)

addBridge(n, bridge) ==
    IF ~InSeq(bridge, n.bridges)
    THEN [n EXCEPT !.bridges = Append(@, bridge)]
    ELSE n

addNode(n, node) ==
    IF ~InSeq(node, n.nodes)
    THEN [n EXCEPT !.nodes = Append(@, node)]
    ELSE n

\* the index of the first link for (src, dst); 0 is None
getLink(n, src, dst) ==
    IF \E i \in 1..Len(n.links) : isLinkFor(n.links[i], src, dst)
    THEN CHOOSE i \in 1..Len(n.links) :
             /\ isLinkFor(n.links[i], src, dst)
             /\ \A j \in 1..(i - 1) : ~isLinkFor(n.links[j], src, dst)
    ELSE 0

\* a faulty addLink, which appends without asking getLink
addLinkUnchecked(n, src, dst, rate, delay, idleSlope) ==
    [n EXCEPT !.links = Append(@, Link(src, dst, rate, delay, idleSlope))]

addLink(n, src, dst, rate, delay, idleSlope) ==
    IF getLink(n, src, dst) = 0
    THEN [n EXCEPT !.links = Append(@, Link(src, dst, rate, delay, idleSlope))]
    ELSE n

addBidirectionalLink(n, src, dst, rate, delay, idleSlope) ==
    addLink(addLink(n, src, dst, rate, delay, idleSlope), dst, src, rate, delay, idleSlope)

\* the index of the first path for (src, dst); 0 is None
lookupPath(n, src, dst) ==
    IF \E i \in 1..Len(n.paths) : n.paths[i].src = src /\ n.paths[i].dst = dst
    THEN CHOOSE i \in 1..Len(n.paths) :
             /\ n.paths[i].src = src /\ n.paths[i].dst = dst
             /\ \A j \in 1..(i - 1) : ~(n.paths[j].src = src /\ n.paths[j].dst = dst)
    ELSE 0

\* a faulty addPath, which appends without asking lookupPath
addPathUnchecked(n, path) ==
    [n EXCEPT !.paths = Append(@, path)]

addPath(n, path) ==
    IF lookupPath(n, path.src, path.dst) = 0
    THEN [n EXCEPT !.paths = Append(@, path)]
    ELSE n

\* the index of the first flow for (src, dst); 0 is None
getFlow(n, src, dst) ==
    IF \E i \in 1..Len(n.flows) : n.flows[i].src = src /\ n.flows[i].dst = dst
    THEN CHOOSE i \in 1..Len(n.flows) :
             /\ n.flows[i].src = src /\ n.flows[i].dst = dst
             /\ \A j \in 1..(i - 1) : ~(n.flows[j].src = src /\ n.flows[j].dst = dst)
    ELSE 0

addFlow(n, flow) ==
    IF getFlow(n, flow.src, flow.dst) = 0
    THEN [n EXCEPT !.flows = Append(@, flow)]
    ELSE n

\* a faulty setLinkIdleSlope, which sets the reverse link's idle slope too
setLinkIdleSlopeBothWays(n, src, dst, idleSlope) ==
    LET i == getLink(n, src, dst)
        j == getLink(n, dst, src)
    IN  IF i = 0 THEN n
        ELSE IF j = 0 THEN [n EXCEPT !.links[i].idleSlope = idleSlope]
        ELSE [n EXCEPT !.links[i].idleSlope = idleSlope,
                       !.links[j].idleSlope = idleSlope]

setLinkIdleSlope(n, src, dst, idleSlope) ==
    LET i == getLink(n, src, dst)
    IN  IF i # 0
        THEN [n EXCEPT !.links[i].idleSlope = idleSlope]
        ELSE n

\* "for link in self.links" of the search, from the i-th link on; st is
\* [unvisited, visited, distances, previous]
RECURSIVE scanLinks(_, _, _, _)
scanLinks(st, links, i, current) ==
    IF i > Len(links) THEN st
    ELSE LET l == links[i]
         IN  IF l.src = current /\ ~InSeq(l.dst, st.visited)
             THEN LET unvisited == IF ~InSeq(l.dst, st.unvisited)
                                   THEN Append(st.unvisited, l.dst)
                                   ELSE st.unvisited
                      fresh     == l.dst \notin DOMAIN st.distances
                  IN  scanLinks([st EXCEPT
                                    !.unvisited = unvisited,
                                    !.distances = IF fresh
                                                  THEN @ @@ (l.dst :> st.distances[current] + 1)
                                                  ELSE @,
                                    !.previous  = IF fresh THEN @ @@ (l.dst :> current) ELSE @],
                                links, i + 1, current)
             ELSE scanLinks(st, links, i + 1, current)

\* "while unvisited"
RECURSIVE searchLoop(_, _)
searchLoop(st, links) ==
    IF st.unvisited = <<>> THEN st
    ELSE LET current == Head(st.unvisited)
             popped  == [st EXCEPT !.unvisited = Tail(@), !.visited = Append(@, current)]
         IN  searchLoop(scanLinks(popped, links, 1, current), links)

search(n, src) ==
    searchLoop([unvisited |-> <<src>>, visited |-> <<>>,
                distances |-> (src :> 0), previous |-> <<>>], n.links)

\* "while current != src": the Path's list after the walk back over previous
RECURSIVE walkBack(_, _, _, _, _, _)
walkBack(n, r, ls, previous, current, src) ==
    IF current = src THEN ls
    ELSE walkBack(n, r,
                  addLinks(ls, LinkRef(r, n.links[getLink(n, previous[current], current)])),
                  previous, previous[current], src)

\* a faulty calculateShortestPath, which registers and returns a path without links
\* when dst is not reached
calculateShortestPathDegenerate(n, r, dl, src, dst) ==
    LET cached == lookupPath(n, src, dst)
        st     == search(n, src)
    IN  IF cached # 0
        THEN [raised |-> FALSE, net |-> n, dl |-> dl, ret |-> n.paths[cached]]
        ELSE IF dst # src /\ dst \notin DOMAIN st.previous
        THEN [raised |-> FALSE, net |-> addPath(n, PathDefault(src, dst)), dl |-> dl,
              ret |-> PathDefault(src, dst)]
        ELSE LET path == PathDefault(src, dst)
             IN  [raised |-> FALSE,
                  net    |-> addPath(n, path),
                  dl     |-> walkBack(n, r, dl, st.previous, dst, src),
                  ret    |-> path]

\* calculateShortestPath of the Network with registry name r and registries n, the
\* default list of Path being dl: [raised, net, dl, ret]; ret is the Path returned
calculateShortestPath(n, r, dl, src, dst) ==
    LET cached == lookupPath(n, src, dst)
        st     == search(n, src)
    IN  IF cached # 0
        THEN [raised |-> FALSE, net |-> n, dl |-> dl, ret |-> n.paths[cached]]
        ELSE IF dst # src /\ dst \notin DOMAIN st.previous
        THEN \* previous[current]: KeyError
             [raised |-> TRUE, net |-> n, dl |-> dl, ret |-> PathDefault(src, dst)]
        ELSE LET path == PathDefault(src, dst)
             IN  [raised |-> FALSE,
                  net    |-> addPath(n, path),
                  dl     |-> walkBack(n, r, dl, st.previous, dst, src),
                  ret    |-> path]

\* "for src in self.nodes: for dst in self.nodes", from the pair (i, j) on
RECURSIVE initializeAllPathsFrom(_, _, _, _, _)
initializeAllPathsFrom(n, r, dl, i, j) ==
    IF i > Len(n.nodes) THEN [raised |-> FALSE, net |-> n, dl |-> dl]
    ELSE IF j > Len(n.nodes) THEN initializeAllPathsFrom(n, r, dl, i + 1, 1)
    ELSE IF n.nodes[i] = n.nodes[j] THEN initializeAllPathsFrom(n, r, dl, i, j + 1)
    ELSE LET c == calculateShortestPath(n, r, dl, n.nodes[i], n.nodes[j])
         IN  IF c.raised
             THEN [raised |-> TRUE, net |-> c.net, dl |-> c.dl]
             ELSE initializeAllPathsFrom(c.net, r, c.dl, i, j + 1)

initializeAllPaths(n, r, dl) ==
    initializeAllPathsFrom(n, r, dl, 1, 1)

\* the flows, from the k-th on, whose path has a link for (src, dst): their
\* (size * 8 + IFG) / cmi, summed
RECURSIVE idleSlopeFromFlows(_, _, _, _, _, _)
idleSlopeFromFlows(n, dl, cmi, src, dst, k) ==
    IF k > Len(n.flows) THEN R(0)
    ELSE LET flow == n.flows[k]
             ls   == linksOf(n.paths[lookupPath(n, flow.src, flow.dst)], dl)
             mine == IF \E i \in 1..Len(ls) : isLinkFor(ls[i], src, dst)
                     THEN RDiv(R(flow.size * 8 + IFG), cmi)
                     ELSE R(0)
         IN  RAdd(mine, idleSlopeFromFlows(n, dl, cmi, src, dst, k + 1))

\* "for link in self.links" of calculateLinkIdleSlopesFromFlows, from the i-th on
RECURSIVE setIdleSlopesFromFlows(_, _, _, _)
setIdleSlopesFromFlows(n, dl, cmi, i) ==
    IF i > Len(n.links) THEN n
    ELSE setIdleSlopesFromFlows(
             [n EXCEPT !.links[i].idleSlope =
                 idleSlopeFromFlows(n, dl, cmi, n.links[i].src, n.links[i].dst, 1)],
             dl, cmi, i + 1)

\* [raised, net].  path.links of a flow without a cached path (lookupPath gave
\* None) is an AttributeError, raised in the pass over the first link
calculateLinkIdleSlopesFromFlows(n, dl, cmi) ==
    IF /\ n.links # <<>>
       /\ \E k \in 1..Len(n.flows) : lookupPath(n, n.flows[k].src, n.flows[k].dst) = 0
    THEN [raised |-> TRUE, net |-> n]
    ELSE [raised |-> FALSE, net |-> setIdleSlopesFromFlows(n, dl, cmi, 1)]

\* a faulty isInputLink, which takes the reverse of link for an input link too
isInputLinkWithReverse(l, link) ==
    l.dst = link.src

isInputLink(l, link) ==
    l.src # link.dst /\ l.dst = link.src

RECURSIVE getInputIdleSlopesFrom(_, _, _)
getInputIdleSlopesFrom(n, link, i) ==
    IF i > Len(n.links) THEN <<>>
    ELSE IF isInputLink(n.links[i], link)
         THEN <<n.links[i].idleSlope>> \o getInputIdleSlopesFrom(n, link, i + 1)
         ELSE getInputIdleSlopesFrom(n, link, i + 1)

getInputIdleSlopes(n, link) ==
    getInputIdleSlopesFrom(n, link, 1)

RECURSIVE findClassMaxFrameFrom(_, _, _)
findClassMaxFrameFrom(n, i, maxFrame) ==
    IF i > Len(n.flows) THEN maxFrame
    ELSE findClassMaxFrameFrom(n, i + 1,
                               IF n.flows[i].size > maxFrame THEN n.flows[i].size
                               ELSE maxFrame)

findClassMaxFrame(n) ==
    findClassMaxFrameFrom(n, 1, 0)

\* [raised, ret].  self.findPath is no method of Network: the first pass of
\* "for flow in self.flows" is an AttributeError
existsFlowOnLink(n, link) ==
    IF n.flows # <<>>
    THEN [raised |-> TRUE, ret |-> FALSE]
    ELSE [raised |-> FALSE, ret |-> FALSE]

\* [raised, ret]
getNumInputLinks(n, link, onlyCountLinksWithFlows) ==
    LET inputs   == {i \in 1..Len(n.links) : isInputLink(n.links[i], link)}
        counted  == {i \in inputs : \/ ~onlyCountLinksWithFlows
                                    \/ existsFlowOnLink(n, n.links[i]).ret}
    IN  IF /\ onlyCountLinksWithFlows
           /\ \E i \in inputs : existsFlowOnLink(n, n.links[i]).raised
        THEN [raised |-> TRUE, ret |-> 0]
        ELSE [raised |-> FALSE, ret |-> Cardinality(counted)]

-----------------------------------------------------------------------------
(* Orchestrator: NetworkLatencyAnalysis                                    *)

\* self.network of the analysis: Network(bridges=[], nodes=[], links=[], ...)
Analysis ==
    "A"

\* the Link object a Path's list holds
deref(netw, ref) ==
    netw[ref.reg].links[getLink(netw[ref.reg], ref.src, ref.dst)]

NoClassMaxFrame ==
    0 - 1

\* a faulty calculateQueueDelayForLink, which runs the formulas for a link from an
\* end node too
calculateQueueDelayForEveryLink(n, cmi, link, flow, classMaxFrame) ==
    LET cmf == IF classMaxFrame = NoClassMaxFrame
               THEN findClassMaxFrame(n) * 8 + IFG
               ELSE classMaxFrame
    IN  runAlgorithmsForPort(cmi, link.idleSlope, flow.size * 8 + IFG, cmf,
                             getNumInputLinks(n, link, FALSE).ret,
                             getInputIdleSlopes(n, link))

\* [raised, value]; n is self.network, link a Link object
calculateQueueDelayForLink(n, cmi, link, flow, classMaxFrame) ==
    IF InSeq(link.src, n.nodes)
    THEN [raised |-> FALSE, value |-> getEmptyResultDict]
    ELSE LET cmf == IF classMaxFrame = NoClassMaxFrame
                    THEN findClassMaxFrame(n) * 8 + IFG
                    ELSE classMaxFrame
             streamMaxFrame  == flow.size * 8 + IFG
             inputIdleSlopes == getInputIdleSlopes(n, link)
             nrInputLinks    == getNumInputLinks(n, link, FALSE).ret
         IN  runAlgorithmsForPort(cmi, link.idleSlope, streamMaxFrame, cmf,
                                  nrInputLinks, inputIdleSlopes)

transmissionDelay(flow) ==
    RDiv(R(flow.size * 8 + IFG), R(LINKSPEED))

\* a faulty keyDelay, which adds the switch delay whatever the link's source is
keyDelayEveryLink(n, sum, link) ==
    RAdd(sum, R(SWITCH_DELAY))

\* "if link.src in self.network.bridges: flowDelay[key] += self.switchDelay"
keyDelay(n, sum, link) ==
    IF InSeq(link.src, n.bridges) THEN RAdd(sum, R(SWITCH_DELAY)) ELSE sum

\* one pass of "for key in result" for the field of one key
addKeyDelay(n, delay, queueDelay, link, flow) ==
    keyDelay(n, RAdd(RAdd(delay, queueDelay), transmissionDelay(flow)), link)

\* one pass of "for link in path.links": flowDelay after the link's pass
addLinkDelay(n, fd, q, link, flow) ==
    [baStandard           |-> addKeyDelay(n, fd.baStandard, q.baStandard, link, flow),
     qStandardL3V1        |-> addKeyDelay(n, fd.qStandardL3V1, q.qStandardL3V1, link, flow),
     qStandardL3V2        |-> addKeyDelay(n, fd.qStandardL3V2, q.qStandardL3V2, link, flow),
     plenary100Mbit       |-> addKeyDelay(n, fd.plenary100Mbit, q.plenary100Mbit, link, flow),
     plenaryFasterMedia   |-> addKeyDelay(n, fd.plenaryFasterMedia, q.plenaryFasterMedia,
                                          link, flow),
     plenaryFasterMediaV2 |-> addKeyDelay(n, fd.plenaryFasterMediaV2, q.plenaryFasterMediaV2,
                                          link, flow),
     qStandardL3V3        |-> addKeyDelay(n, fd.qStandardL3V3, q.qStandardL3V3, link, flow)]

\* "for link in path.links", from the i-th link of ls on; endToEndPass is the pass
\* for one link, result being what calculateQueueDelayForLink returned for it
RECURSIVE endToEndFrom(_, _, _, _, _, _, _)
endToEndPass(netw, cmi, flow, classMaxFrame, ls, i, flowDelay, link, result) ==
    IF result.raised
    THEN [raised |-> TRUE, value |-> flowDelay]
    ELSE endToEndFrom(netw, cmi, flow, classMaxFrame, ls, i + 1,
                      addLinkDelay(netw[Analysis], flowDelay, result.value, link, flow))

endToEndFrom(netw, cmi, flow, classMaxFrame, ls, i, flowDelay) ==
    IF i > Len(ls) THEN [raised |-> FALSE, value |-> flowDelay]
    ELSE endToEndPass(netw, cmi, flow, classMaxFrame, ls, i, flowDelay,
                      deref(netw, ls[i]),
                      calculateQueueDelayForLink(netw[Analysis], cmi, deref(netw, ls[i]),
                                                 flow, classMaxFrame))

\* a faulty calculateEndToEndDelayForFlow, which asks calculateShortestPath for the
\* path and so computes one where none is cached
calculateEndToEndDelayOverComputedPath(netw, dl, cmi, flow) ==
    IF calculateShortestPath(netw[Analysis], Analysis, dl, flow.src, flow.dst).raised
    THEN [raised |-> TRUE, value |-> getEmptyResultDict]
    ELSE endToEndFrom(netw, cmi, flow, findClassMaxFrame(netw[Analysis]) * 8 + IFG,
                      linksOf(calculateShortestPath(netw[Analysis], Analysis, dl,
                                                    flow.src, flow.dst).ret,
                              calculateShortestPath(netw[Analysis], Analysis, dl,
                                                    flow.src, flow.dst).dl),
                      1, getEmptyResultDict)

\* [raised, value]
calculateEndToEndDelayForFlow(netw, dl, cmi, flow) ==
    LET n             == netw[Analysis]
        classMaxFrame == findClassMaxFrame(n) * 8 + IFG
        p             == lookupPath(n, flow.src, flow.dst)
    IN  IF p # 0
        THEN endToEndFrom(netw, cmi, flow, classMaxFrame, linksOf(n.paths[p], dl), 1,
                          getEmptyResultDict)
        ELSE [raised |-> FALSE, value |-> getEmptyResultDict]

\* "for flow in self.network.flows" of calculateEndToEndDelays, from the k-th flow on:
\* [raised, cmi, cmis, value].  cmi is calculator.CMI now, cmis the values setCMI has
\* been called with, perFlowDelay the dictionaries of the flows before the k-th.
\* endToEndDelaysPass is the rest of the pass for the k-th flow, c being what
\* calculateEndToEndDelayForFlow gave for it; an exception leaves the loop and the call
RECURSIVE endToEndDelaysFrom(_, _, _, _, _, _, _)
endToEndDelaysPass(netw, dl, use, k, perFlowDelay, cmi, cmis, c) ==
    IF c.raised
    THEN [raised |-> TRUE, cmi |-> cmi, cmis |-> cmis, value |-> <<>>]
    ELSE endToEndDelaysFrom(netw, dl, use, k + 1, Append(perFlowDelay, c.value), cmi, cmis)

\* a faulty pass, which leaves the CMI of the calculator as it is whatever
\* useFlowIntervalAsCMI says
passCMIKept(use, flow, cmi) ==
    cmi

\* the CMI of the calculator during the pass for flow: setCMI(flow.period) when
\* useFlowIntervalAsCMI is set
passCMI(use, flow, cmi) ==
    IF use THEN R(flow.period) ELSE cmi

endToEndDelaysFrom(netw, dl, use, k, perFlowDelay, cmi, cmis) ==
    IF k > Len(netw[Analysis].flows)
    THEN [raised |-> FALSE,
          cmi    |-> IF use THEN R(CMI_CONFIG) ELSE cmi,
          cmis   |-> IF use THEN Append(cmis, R(CMI_CONFIG)) ELSE cmis,
          value  |-> perFlowDelay]
    ELSE endToEndDelaysPass(netw, dl, use, k, perFlowDelay,
                            passCMI(use, netw[Analysis].flows[k], cmi),
                            IF use THEN Append(cmis, R(netw[Analysis].flows[k].period))
                            ELSE cmis,
                            calculateEndToEndDelayForFlow(
                                netw, dl, passCMI(use, netw[Analysis].flows[k], cmi),
                                netw[Analysis].flows[k]))

\* [raised, cmi, cmis, value]: value[k] is the dictionary of the k-th flow
calculateEndToEndDelays(netw, dl, cmi, useFlowIntervalAsCMI) ==
    endToEndDelaysFrom(netw, dl, useFlowIntervalAsCMI, 1, <<>>, cmi, <<>>)

-----------------------------------------------------------------------------
(* Calls.  Each action is one call on the Network of the analysis (or on   *)
(* the analysis itself), with what it returned recorded in last.           *)

\* the set of (src, dst) pairs of a list of links
pairsOf(ls) ==
    {<<ls[i].src, ls[i].dst>> : i \in 1..Len(ls)}

DoAddNode(node) ==
    /\ net' = [net EXCEPT ![Analysis] = addNode(@, node)]
    /\ last' = [op |-> "addNode", id |-> node,
                present |-> InSeq(node, net[Analysis].nodes)]
    /\ UNCHANGED <<defaultLinks, calcCMI>>

DoAddBridge(bridge) ==
    /\ net' = [net EXCEPT ![Analysis] = addBridge(@, bridge)]
    /\ last' = [op |-> "addBridge", id |-> bridge,
                present |-> InSeq(bridge, net[Analysis].bridges)]
    /\ UNCHANGED <<defaultLinks, calcCMI>>

DoAddLink(src, dst, rate, delay, idleSlope) ==
    /\ net' = [net EXCEPT ![Analysis] = addLink(@, src, dst, rate, delay, idleSlope)]
    /\ last' = [op |-> "addLink", src |-> src, dst |-> dst,
                rate |-> rate, delay |-> delay, idleSlope |-> idleSlope,
                present |-> getLink(net[Analysis], src, dst) # 0]
    /\ UNCHANGED <<defaultLinks, calcCMI>>

DoAddBidirectionalLink(src, dst, rate, delay, idleSlope) ==
    /\ net' = [net EXCEPT ![Analysis] =
                  addBidirectionalLink(@, src, dst, rate, delay, idleSlope)]
    /\ last' = [op |-> "addBidirectionalLink", src |-> src, dst |-> dst,
                rate |-> rate, delay |-> delay, idleSlope |-> idleSlope,
                present |-> \/ getLink(net[Analysis], src, dst) # 0
                            \/ getLink(net[Analysis], dst, src) # 0]
    /\ UNCHANGED <<defaultLinks, calcCMI>>

DoAddFlow(flow) ==
    /\ net' = [net EXCEPT ![Analysis] = addFlow(@, flow)]
    /\ last' = [op |-> "addFlow", src |-> flow.src, dst |-> flow.dst,
                size |-> flow.size, period |-> flow.period,
                present |-> getFlow(net[Analysis], flow.src, flow.dst) # 0]
    /\ UNCHANGED <<defaultLinks, calcCMI>>

\* path.addLinks(self.network.getLink(...)) for the registry's links with their
\* index in picked, in registry order from the i-th on
RECURSIVE addPickedLinks(_, _, _, _)
addPickedLinks(n, ls, picked, i) ==
    IF i > Len(n.links) THEN ls
    ELSE addPickedLinks(n,
                        IF i \in picked THEN addLinks(ls, LinkRef(Analysis, n.links[i])) ELSE ls,
                        picked, i + 1)

\* the scenarios' way to register a path: path = Path(src, dst) or
\* Path(src, dst, []); path.addLinks(getLink(..)) ...; network.addPath(path)
DoAddPath(src, dst, shared, picked) ==
    LET n  == net[Analysis]
        ls == addPickedLinks(n, IF shared THEN defaultLinks ELSE <<>>, picked, 1)
    IN  /\ net' = [net EXCEPT ![Analysis] =
                      addPath(@, IF shared THEN PathDefault(src, dst)
                                 ELSE PathOwn(src, dst, ls))]
        /\ defaultLinks' = IF shared THEN ls ELSE defaultLinks
        /\ last' = [op |-> "addPath", src |-> src, dst |-> dst,
                    present |-> lookupPath(n, src, dst) # 0]
        /\ UNCHANGED calcCMI

DoCalculateShortestPath(src, dst) ==
    LET c == calculateShortestPath(net[Analysis], Analysis, defaultLinks, src, dst)
    IN  /\ net' = [net EXCEPT ![Analysis] = c.net]
        /\ defaultLinks' = c.dl
        /\ last' = [op |-> "calculateShortestPath", src |-> src, dst |-> dst,
                    raised |-> c.raised,
                    cached |-> lookupPath(net[Analysis], src, dst) # 0,
                    links  |-> IF c.raised THEN <<>> ELSE linksOf(c.ret, c.dl)]
        /\ UNCHANGED calcCMI

DoLookupPath(src, dst) ==
    LET p == lookupPath(net[Analysis], src, dst)
    IN  /\ last' = [op |-> "lookupPath", src |-> src, dst |-> dst,
                    found |-> p # 0,
                    links |-> IF p # 0 THEN linksOf(net[Analysis].paths[p], defaultLinks)
                              ELSE <<>>]
        /\ UNCHANGED <<net, defaultLinks, calcCMI>>

DoInitializeAllPaths ==
    LET c == initializeAllPaths(net[Analysis], Analysis, defaultLinks)
    IN  /\ net' = [net EXCEPT ![Analysis] = c.net]
        /\ defaultLinks' = c.dl
        /\ last' = [op |-> "initializeAllPaths", raised |-> c.raised]
        /\ UNCHANGED calcCMI

DoSetLinkIdleSlope(src, dst, idleSlope) ==
    /\ net' = [net EXCEPT ![Analysis] = setLinkIdleSlope(@, src, dst, idleSlope)]
    /\ last' = [op |-> "setLinkIdleSlope", src |-> src, dst |-> dst,
                idleSlope |-> idleSlope,
                present |-> \E i \in 1..Len(net[Analysis].links) :
                                isLinkFor(net[Analysis].links[i], src, dst)]
    /\ UNCHANGED <<defaultLinks, calcCMI>>

DoCalculateLinkIdleSlopesFromFlows(cmi) ==
    LET c == calculateLinkIdleSlopesFromFlows(net[Analysis], defaultLinks, cmi)
    IN  /\ net' = [net EXCEPT ![Analysis] = c.net]
        /\ last' = [op |-> "calculateLinkIdleSlopesFromFlows", cmi |-> cmi,
                    raised |-> c.raised]
        /\ UNCHANGED <<defaultLinks, calcCMI>>

\* the queries, for the i-th link of the registry
DoGetInputIdleSlopes(i) ==
    LET n    == net[Analysis]
        link == n.links[i]
    IN  /\ last' = [op |-> "getInputIdleSlopes", src |-> link.src, dst |-> link.dst,
                    ret |-> getInputIdleSlopes(n, link)]
        /\ UNCHANGED <<net, defaultLinks, calcCMI>>

DoGetNumInputLinks(i, onlyCountLinksWithFlows) ==
    LET n    == net[Analysis]
        link == n.links[i]
        c    == getNumInputLinks(n, link, onlyCountLinksWithFlows)
    IN  /\ last' = [op |-> "getNumInputLinks", src |-> link.src, dst |-> link.dst,
                    only |-> onlyCountLinksWithFlows,
                    raised |-> c.raised, ret |-> c.ret]
        /\ UNCHANGED <<net, defaultLinks, calcCMI>>

DoExistsFlowOnLink(i) ==
    LET n    == net[Analysis]
        link == n.links[i]
        c    == existsFlowOnLink(n, link)
    IN  /\ last' = [op |-> "existsFlowOnLink", src |-> link.src, dst |-> link.dst,
                    raised |-> c.raised, ret |-> c.ret]
        /\ UNCHANGED <<net, defaultLinks, calcCMI>>

-----------------------------------------------------------------------------
(* Spec: the registries of a Network built from empty by any sequence of   *)
(* the calls that add to them                                              *)

\* node ids the calls draw from
Ids ==
    {"N0", "S0"}

\* at most this many entries in the registries of the Network, all together
MaxEntries ==
    2

\* <<rate, delay, idleSlope>> of the links added: 100 Mbit/s and 1 Gbit/s
LinkProfiles ==
    {<<100, 8, R(0)>>, <<1000, 0, R(50)>>}

\* <<size, deadline, period, priority>> of the flows added
FlowProfiles ==
    {<<750, 1000, 1000, 7>>, <<370, 1000, 125, 7>>}

SetSlopes ==
    {R(25)}

entries(n) ==
    Len(n.bridges) + Len(n.nodes) + Len(n.links) + Len(n.flows) + Len(n.paths)

Init ==
    /\ net = [r \in {Analysis} |-> Network]
    /\ defaultLinks = <<>>
    /\ calcCMI = R(CMI_CONFIG)
    /\ last = [op |-> "init"]

\* a call, once the registries it leaves are within the bound
Bounded(call) ==
    /\ call
    /\ entries(net'[Analysis]) <= MaxEntries

Next ==
    \/ \E id \in Ids : Bounded(DoAddNode(id))
    \/ \E id \in Ids : Bounded(DoAddBridge(id))
    \/ \E src \in Ids, dst \in Ids, pr \in LinkProfiles :
           Bounded(DoAddLink(src, dst, pr[1], pr[2], pr[3]))
    \/ \E src \in Ids, dst \in Ids :
           Bounded(DoAddBidirectionalLink(src, dst, LINKSPEED, SWITCH_DELAY, R(0)))
    \/ \E src \in Ids, dst \in Ids, pr \in FlowProfiles :
           /\ src # dst
           /\ Bounded(DoAddFlow(Flow(src, dst, pr[1], pr[2], pr[3], pr[4])))
    \/ \E src \in Ids, dst \in Ids, picked \in SUBSET (1..Len(net[Analysis].links)) :
           /\ src # dst
           /\ Bounded(DoAddPath(src, dst, FALSE, picked))
    \/ \E src \in Ids, dst \in Ids : Bounded(DoCalculateShortestPath(src, dst))
    \/ Bounded(DoInitializeAllPaths)
    \/ \E src \in Ids, dst \in Ids, x \in SetSlopes : DoSetLinkIdleSlope(src, dst, x)

Spec ==
    Init /\ [][Next]_vars

-----------------------------------------------------------------------------
(* PathSpec: links and paths.  Links are added, paths are registered the   *)
(* scenarios' way or computed, and looked up                               *)

MaxLinks ==
    2

MaxPaths ==
    2

PathNext ==
    \/ \E src \in Ids, dst \in Ids :
           /\ Len(net[Analysis].links) < MaxLinks
           /\ DoAddLink(src, dst, LINKSPEED, SWITCH_DELAY, R(0))
    \/ \E src \in Ids, dst \in Ids, picked \in SUBSET (1..Len(net[Analysis].links)) :
           /\ Len(net[Analysis].paths) < MaxPaths
           /\ DoAddPath(src, dst, FALSE, picked)
    \/ \E src \in Ids, dst \in Ids :
           /\ \/ Len(net[Analysis].paths) < MaxPaths
              \/ lookupPath(net[Analysis], src, dst) # 0
           /\ DoCalculateShortestPath(src, dst)
    \/ \E src \in Ids, dst \in Ids : DoLookupPath(src, dst)

PathSpec ==
    Init /\ [][PathNext]_vars

-----------------------------------------------------------------------------
(* The scenarios: SmallEvalNetworkReducedPayload and ExceedLatencyLvl0, as  *)
(* their constructors leave the analysis                                   *)

RECURSIVE addNodesOf(_, _)
addNodesOf(n, ids) ==
    IF ids = <<>> THEN n ELSE addNodesOf(addNode(n, Head(ids)), Tail(ids))

RECURSIVE addBridgesOf(_, _)
addBridgesOf(n, ids) ==
    IF ids = <<>> THEN n ELSE addBridgesOf(addBridge(n, Head(ids)), Tail(ids))

\* addBidirectionalLink(a, b, LINK_SPEED, SWITCH_DELAY) for each pair, idle slope 0
RECURSIVE createLinksOf(_, _)
createLinksOf(n, pairs) ==
    IF pairs = <<>> THEN n
    ELSE createLinksOf(addBidirectionalLink(n, Head(pairs)[1], Head(pairs)[2],
                                            LINKSPEED, SWITCH_DELAY, R(0)),
                       Tail(pairs))

\* path.addLinks(self.network.getLink(a, b)) for each pair, on the list ls
RECURSIVE addLinksOf(_, _, _)
addLinksOf(n, ls, pairs) ==
    IF pairs = <<>> THEN ls
    ELSE addLinksOf(n,
                    addLinks(ls, LinkRef(Analysis,
                                         n.links[getLink(n, Head(pairs)[1], Head(pairs)[2])])),
                    Tail(pairs))

SmallEvalNodes ==
    <<"N0", "N1", "N2", "N3", "CT0", "CT1">>

SmallEvalBridges ==
    <<"S0", "S1", "S2">>

SmallEvalLinks ==
    <<<<"S0", "S1">>, <<"S1", "S2">>, <<"N0", "S0">>, <<"N1", "S1">>,
      <<"N2", "S2">>, <<"N3", "S1">>, <<"CT0", "S0">>, <<"CT1", "S2">>>>

\* the links of the path of the flow, and of setLinkIdleSlopes
SmallEvalRoute ==
    <<<<"N0", "S0">>, <<"S0", "S1">>, <<"S1", "S2">>, <<"S2", "N2">>>>

SmallEvalTopology ==
    createLinksOf(addBridgesOf(addNodesOf(Network, SmallEvalNodes), SmallEvalBridges),
                  SmallEvalLinks)

\* addFlowsAndPaths: path = Path("N0", "N2") is built on the default list
SmallEvalNetwork ==
    addPath(addFlow(SmallEvalTopology, Flow("N0", "N2", 750, 1000, 1000, 7)),
            PathDefault("N0", "N2"))

SmallEvalDefaultLinks ==
    addLinksOf(SmallEvalTopology, <<>>, SmallEvalRoute)

ExceedNodes ==
    <<"GenFoi", "GenBELeft", "GenBeRight", "SinkLeft", "SinkRight", "GenLeft",
      "GenRight", "SinkFinal">>

ExceedBridges ==
    <<"swtLeft", "swtRight">>

ExceedLinks ==
    <<<<"swtLeft", "swtRight">>, <<"GenFoi", "swtLeft">>, <<"GenBELeft", "swtLeft">>,
      <<"GenBeRight", "swtRight">>, <<"SinkLeft", "swtLeft">>, <<"SinkRight", "swtRight">>,
      <<"GenLeft", "swtLeft">>, <<"GenRight", "swtRight">>, <<"SinkFinal", "swtRight">>>>

ExceedTopology ==
    createLinksOf(addBridgesOf(addNodesOf(Network, ExceedNodes), ExceedBridges),
                  ExceedLinks)

\* one flow and its path = Path(src, dst, []) with the links of route
addFlowAndPath(n, topology, flow, route) ==
    addPath(addFlow(n, flow), PathOwn(flow.src, flow.dst, addLinksOf(topology, <<>>, route)))

ExceedNetwork ==
    LET foi == addFlowAndPath(ExceedTopology, ExceedTopology,
                   Flow("GenFoi", "SinkFinal", 370, 1000, 125, 7),
                   <<<<"GenFoi", "swtLeft">>, <<"swtLeft", "swtRight">>,
                     <<"swtRight", "SinkFinal">>>>)
        xf1 == addFlowAndPath(foi, ExceedTopology,
                   Flow("GenLeft", "SinkRight", 370, 1000, 5000, 7),
                   <<<<"GenLeft", "swtLeft">>, <<"swtLeft", "swtRight">>,
                     <<"swtRight", "SinkRight">>>>)
    IN  addFlowAndPath(xf1, ExceedTopology,
                   Flow("GenRight", "SinkFinal", 370, 1000, 5000, 7),
                   <<<<"GenRight", "swtRight">>, <<"swtRight", "SinkFinal">>>>)

\* the links ExceedLatencyLvl0.setLinkIdleSlopes sets
ExceedSlopeLinks ==
    <<<<"GenFoi", "swtLeft">>, <<"GenLeft", "swtLeft">>, <<"GenRight", "swtRight">>,
      <<"swtLeft", "swtRight">>, <<"swtLeft", "SinkLeft">>, <<"swtRight", "SinkFinal">>,
      <<"swtRight", "SinkRight">>>>

\* setLinkIdleSlopes(idleSlope) of the two scenario classes
RECURSIVE setLinkIdleSlopesOf(_, _, _)
setLinkIdleSlopesOf(n, pairs, idleSlope) ==
    IF pairs = <<>> THEN n
    ELSE setLinkIdleSlopesOf(setLinkIdleSlope(n, Head(pairs)[1], Head(pairs)[2], idleSlope),
                             Tail(pairs), idleSlope)

\* whether the analysis is a SmallEvalNetworkReducedPayload (else an ExceedLatencyLvl0)
isSmallEval ==
    net[Analysis].nodes = SmallEvalNodes

DoSetLinkIdleSlopes(idleSlope) ==
    /\ net' = [net EXCEPT ![Analysis] =
                  setLinkIdleSlopesOf(@, IF isSmallEval THEN SmallEvalRoute
                                         ELSE ExceedSlopeLinks, idleSlope)]
    /\ last' = [op |-> "setLinkIdleSlopes", idleSlope |-> idleSlope]
    /\ UNCHANGED <<defaultLinks, calcCMI>>

\* what a call of the analysis left behind: the dictionary it returned, or that it
\* raised (no dictionary then)
returned(call, c) ==
    [op |-> call.op, src |-> call.src, dst |-> call.dst, flow |-> call.flow,
     raised |-> c.raised,
     value |-> IF c.raised THEN getEmptyResultDict ELSE c.value]

\* calculateEndToEndDelayForFlow for the k-th flow of the registry
DoCalculateEndToEndDelayForFlow(k) ==
    /\ last' = returned([op |-> "calculateEndToEndDelayForFlow", src |-> net[Analysis].flows[k].src,
                         dst |-> net[Analysis].flows[k].dst, flow |-> k],
                        calculateEndToEndDelayForFlow(net, defaultLinks, calcCMI,
                                                      net[Analysis].flows[k]))
    /\ UNCHANGED <<net, defaultLinks, calcCMI>>

\* calculateQueueDelayForLink(link, flow) for the i-th link and the k-th flow
DoCalculateQueueDelayForLink(i, k) ==
    /\ last' = returned([op |-> "calculateQueueDelayForLink", src |-> net[Analysis].links[i].src,
                         dst |-> net[Analysis].links[i].dst, flow |-> k],
                        calculateQueueDelayForLink(net[Analysis], calcCMI,
                                                   net[Analysis].links[i],
                                                   net[Analysis].flows[k], NoClassMaxFrame))
    /\ UNCHANGED <<net, defaultLinks, calcCMI>>

-----------------------------------------------------------------------------
(* ScenarioSpec: one of the two scenarios after construction; the study    *)
(* sets the idle slopes and asks for the delays                            *)

\* 25, 50 and 75 Mbit/s, and the 48.832 and 6.144 Mbit/s of SmallEval's runStudy
StudySlopes ==
    {R(25), R(50), R(75), Rat(6104, 125), Rat(768, 125)}

\* whether the i-th link of the registry is a link of the cached path of the k-th flow
onPathOfFlow(i, k) ==
    LET n == net[Analysis]
        p == lookupPath(n, n.flows[k].src, n.flows[k].dst)
    IN  /\ p # 0
        /\ <<n.links[i].src, n.links[i].dst>> \in pairsOf(linksOf(n.paths[p], defaultLinks))

ScenarioInit ==
    /\ \/ /\ net = [r \in {Analysis} |-> SmallEvalNetwork]
          /\ defaultLinks = SmallEvalDefaultLinks
       \/ /\ net = [r \in {Analysis} |-> ExceedNetwork]
          /\ defaultLinks = <<>>
    /\ calcCMI = R(CMI_CONFIG)
    /\ last = [op |-> "init"]

ScenarioNext ==
    \/ \E x \in StudySlopes : DoSetLinkIdleSlopes(x)
    \/ \E k \in 1..Len(net[Analysis].flows) : DoCalculateEndToEndDelayForFlow(k)
    \/ \E i \in 1..Len(net[Analysis].links), k \in 1..Len(net[Analysis].flows) :
           /\ onPathOfFlow(i, k)
           /\ DoCalculateQueueDelayForLink(i, k)

ScenarioSpec ==
    ScenarioInit /\ [][ScenarioNext]_vars

-----------------------------------------------------------------------------
(* SlopeSpec: one of the two scenarios after construction; idle slopes are *)
(* set or computed from the flows, a flow may come without a path, and the *)
(* input links are asked for                                               *)

\* the class measurement interval passed to calculateLinkIdleSlopesFromFlows
StudyCMIs ==
    {R(125), R(50)}

\* a flow between the second and the fourth end node, which has no path
extraFlow(n) ==
    Flow(n.nodes[2], n.nodes[4], 370, 1000, 1000, 7)

\* links the scenario has not: one from the first end node to the second bridge,
\* with no reverse, and one from the first bridge to itself
extraLinks(n) ==
    {<<n.nodes[1], n.bridges[2]>>, <<n.bridges[1], n.bridges[1]>>}

SlopeNext ==
    \/ DoSetLinkIdleSlopes(R(50))
    \/ \E cmi \in StudyCMIs : DoCalculateLinkIdleSlopesFromFlows(cmi)
    \/ DoAddFlow(extraFlow(net[Analysis]))
    \/ \E pair \in extraLinks(net[Analysis]) :
           DoAddLink(pair[1], pair[2], LINKSPEED, SWITCH_DELAY, R(25))
    \/ \E i \in 1..Len(net[Analysis].links) : DoGetInputIdleSlopes(i)
    \/ \E i \in 1..Len(net[Analysis].links), only \in BOOLEAN : DoGetNumInputLinks(i, only)
    \/ \E i \in 1..Len(net[Analysis].links) : DoExistsFlowOnLink(i)

SlopeSpec ==
    ScenarioInit /\ [][SlopeNext]_vars

-----------------------------------------------------------------------------
(* BuildSpec: the analysis from its construction on.  The constructor of a  *)
(* scenario class calls addNodes, addBridges, createLinks and               *)
(* addFlowsAndPaths in this order; between the steps and after them idle    *)
(* slopes are set, a link is added, and the analysis is asked for delays    *)

Scenarios ==
    {"SmallEval", "Exceed"}

nodesOf(s) ==
    IF s = "SmallEval" THEN SmallEvalNodes ELSE ExceedNodes

bridgesOf(s) ==
    IF s = "SmallEval" THEN SmallEvalBridges ELSE ExceedBridges

scenarioLinksOf(s) ==
    IF s = "SmallEval" THEN SmallEvalLinks ELSE ExceedLinks

\* addNodes() of the scenario class s, the first step of its constructor
DoAddNodes(s) ==
    /\ net[Analysis].nodes = <<>>
    /\ net' = [net EXCEPT ![Analysis] = addNodesOf(@, nodesOf(s))]
    /\ last' = [op |-> "addNodes"]
    /\ UNCHANGED <<defaultLinks, calcCMI>>

\* addBridges()
DoAddBridges(s) ==
    /\ net[Analysis].nodes = nodesOf(s)
    /\ net[Analysis].bridges = <<>>
    /\ net' = [net EXCEPT ![Analysis] = addBridgesOf(@, bridgesOf(s))]
    /\ last' = [op |-> "addBridges"]
    /\ UNCHANGED <<defaultLinks, calcCMI>>

\* whether createLinks() has run
linksCreated(n) ==
    \E i \in 1..Len(n.links) : InSeq(n.links[i].src, n.bridges)

\* createLinks()
DoCreateLinks(s) ==
    /\ net[Analysis].bridges = bridgesOf(s)
    /\ ~linksCreated(net[Analysis])
    /\ net' = [net EXCEPT ![Analysis] = createLinksOf(@, scenarioLinksOf(s))]
    /\ last' = [op |-> "createLinks"]
    /\ UNCHANGED <<defaultLinks, calcCMI>>

\* addFlowsAndPaths() of SmallEvalNetworkReducedPayload on the registries n, the
\* default list of Path being dl: [net, dl]
addFlowsAndPathsSmallEval(n, dl) ==
    [net |-> addPath(addFlow(n, Flow("N0", "N2", 750, 1000, 1000, 7)),
                     PathDefault("N0", "N2")),
     dl  |-> addLinksOf(n, dl, SmallEvalRoute)]

\* addFlowsAndPaths() of ExceedLatencyLvl0
addFlowsAndPathsExceed(n, dl) ==
    [net |-> addFlowAndPath(
                 addFlowAndPath(
                     addFlowAndPath(n, n, Flow("GenFoi", "SinkFinal", 370, 1000, 125, 7),
                                    <<<<"GenFoi", "swtLeft">>, <<"swtLeft", "swtRight">>,
                                      <<"swtRight", "SinkFinal">>>>),
                     n, Flow("GenLeft", "SinkRight", 370, 1000, 5000, 7),
                     <<<<"GenLeft", "swtLeft">>, <<"swtLeft", "swtRight">>,
                       <<"swtRight", "SinkRight">>>>),
                 n, Flow("GenRight", "SinkFinal", 370, 1000, 5000, 7),
                 <<<<"GenRight", "swtRight">>, <<"swtRight", "SinkFinal">>>>),
     dl  |-> dl]

addFlowsAndPaths(n, dl) ==
    IF n.nodes = SmallEvalNodes THEN addFlowsAndPathsSmallEval(n, dl)
    ELSE addFlowsAndPathsExceed(n, dl)

DoAddFlowsAndPaths ==
    /\ linksCreated(net[Analysis])
    /\ net[Analysis].flows = <<>>
    /\ net' = [net EXCEPT ![Analysis] = addFlowsAndPaths(@, defaultLinks).net]
    /\ defaultLinks' = addFlowsAndPaths(net[Analysis], defaultLinks).dl
    /\ last' = [op |-> "addFlowsAndPaths"]
    /\ UNCHANGED calcCMI

\* network.findClassMaxFrame()
DoFindClassMaxFrame ==
    /\ last' = [op |-> "findClassMaxFrame", ret |-> findClassMaxFrame(net[Analysis])]
    /\ UNCHANGED <<net, defaultLinks, calcCMI>>

\* calculateQueueDelayForLink(link, flow) for the i-th link of the registry and a
\* Flow object of the caller's
DoCalculateQueueDelayForLinkAndFlow(i, flow) ==
    /\ last' = returned([op |-> "calculateQueueDelayForLink", src |-> net[Analysis].links[i].src,
                         dst |-> net[Analysis].links[i].dst, flow |-> flow],
                        calculateQueueDelayForLink(net[Analysis], calcCMI,
                                                   net[Analysis].links[i], flow,
                                                   NoClassMaxFrame))
    /\ UNCHANGED <<net, defaultLinks, calcCMI>>

\* a faulty call, which sets the CMI of the formula engine to the period of the flow
\* and leaves it there
DoCalculateEndToEndDelayAtFlowPeriod(flow) ==
    /\ calcCMI' = R(flow.period)
    /\ last' = returned([op |-> "calculateEndToEndDelayForFlow", src |-> flow.src,
                         dst |-> flow.dst, flow |-> flow],
                        calculateEndToEndDelayForFlow(net, defaultLinks, R(flow.period), flow))
    /\ UNCHANGED <<net, defaultLinks>>

\* calculateEndToEndDelayForFlow(flow) for a Flow object of the caller's
DoCalculateEndToEndDelayForGivenFlow(flow) ==
    /\ last' = returned([op |-> "calculateEndToEndDelayForFlow", src |-> flow.src,
                         dst |-> flow.dst, flow |-> flow],
                        calculateEndToEndDelayForFlow(net, defaultLinks, calcCMI, flow))
    /\ UNCHANGED <<net, defaultLinks, calcCMI>>

\* calculateEndToEndDelays(useFlowIntervalAsCMI)
DoCalculateEndToEndDelays(useFlowIntervalAsCMI) ==
    \E c \in {calculateEndToEndDelays(net, defaultLinks, calcCMI, useFlowIntervalAsCMI)} :
        /\ calcCMI' = c.cmi
        /\ last' = [op |-> "calculateEndToEndDelays", use |-> useFlowIntervalAsCMI,
                    raised |-> c.raised, cmis |-> c.cmis, value |-> c.value]
        /\ UNCHANGED <<net, defaultLinks>>

\* Flow objects the analysis is asked about: the one registered first, and one between
\* the second and the fourth end node, which no scenario registers
flowArguments(n) ==
    {n.flows[k] : k \in {j \in 1..Len(n.flows) : j = 1}}
        \cup (IF n.nodes = <<>> THEN {}
              ELSE {Flow(n.nodes[2], n.nodes[4], 370, 1000, 1000, 7)})

\* the links the analysis is asked about are the first of the registry
MaxAsked ==
    6

askedLinks(n) ==
    {i \in 1..Len(n.links) : i <= MaxAsked}

\* a link from the second end node to the first, which gives the first end node's
\* link an input link
DoAddLinkBetweenNodes ==
    /\ net[Analysis].nodes # <<>>
    /\ DoAddLink(net[Analysis].nodes[2], net[Analysis].nodes[1], LINKSPEED, SWITCH_DELAY,
                 R(25))

\* a bridge-sourced link of a flow's path: the last link of SmallEval's route, and of
\* the route of Exceed's second flow
clearedLink ==
    IF isSmallEval THEN <<"S2", "N2">> ELSE <<"swtRight", "SinkRight">>

\* its idle slope set back to 0, the default of addBidirectionalLink
DoClearLinkIdleSlope ==
    /\ linksCreated(net[Analysis])
    /\ DoSetLinkIdleSlope(clearedLink[1], clearedLink[2], R(0))

BuildNext ==
    \/ \E s \in Scenarios : DoAddNodes(s)
    \/ \E s \in Scenarios : DoAddBridges(s)
    \/ \E s \in Scenarios : DoCreateLinks(s)
    \/ DoAddFlowsAndPaths
    \/ linksCreated(net[Analysis]) /\ DoSetLinkIdleSlopes(R(50))
    \/ DoClearLinkIdleSlope
    \/ DoAddLinkBetweenNodes
    \/ DoFindClassMaxFrame
    \/ \E i \in askedLinks(net[Analysis]), flow \in flowArguments(net[Analysis]) :
           DoCalculateQueueDelayForLinkAndFlow(i, flow)
    \/ \E flow \in flowArguments(net[Analysis]) : DoCalculateEndToEndDelayForGivenFlow(flow)
    \/ \E use \in BOOLEAN : DoCalculateEndToEndDelays(use)

BuildSpec ==
    Init /\ [][BuildNext]_vars

-----------------------------------------------------------------------------
(* FormulaSpec: a CBSLatencyCalculator constructed with one of the CMIs, and *)
(* the arguments its formulas are called with, drawn from small sets         *)

\* 125 us and the 1 ms period of the scenarios' flows
FormulaCMIs ==
    {R(125), R(1000)}

\* idle slopes between 0 and the linkspeed: 1, 5, 25, 50 and 75 Mbit/s
IdleSlopes ==
    {R(1), R(5), R(25), R(50), R(75)}

\* idle slopes of input links: 0 (the default of addBidirectionalLink), 25 and 50 Mbit/s
InputSlopes ==
    {R(0), R(25), R(50)}

\* frame sizes in bits: the IFG alone, the scenarios' flows (370 bytes) and a maximum
\* frame with IFG
Frames ==
    {IFG, 370 * 8, ctMaxFrame}

MaxInputLinks ==
    2

\* the lists of at most MaxInputLinks input idle slopes
InputSlopeLists ==
    UNION {[1..k -> InputSlopes] : k \in 0..MaxInputLinks}

\* the arguments of a call: the class max frame is the stream's or a maximum frame
Arguments ==
    {[idleSlope |-> idleSlope, streamMaxFrame |-> streamMaxFrame,
      classMaxFrame |-> classMaxFrame, nrInputLinks |-> nrInputLinks,
      inputIdleSlopes |-> inputIdleSlopes] :
         idleSlope \in IdleSlopes, streamMaxFrame \in Frames,
         classMaxFrame \in {MIN_PACKET_BITS_W_IFG, ctMaxFrame},
         nrInputLinks \in 0..MaxInputLinks, inputIdleSlopes \in InputSlopeLists}

FormulaInit ==
    /\ net = [r \in {Analysis} |-> Network]
    /\ defaultLinks = <<>>
    /\ calcCMI \in FormulaCMIs
    /\ \E args \in Arguments : last = [op |-> "init", args |-> args]

DoBaStandard ==
    /\ last' = [op |-> "baStandard", args |-> last.args,
                value |-> baStandard(calcCMI, last.args.idleSlope,
                                     last.args.streamMaxFrame)]
    /\ UNCHANGED <<net, defaultLinks, calcCMI>>

DoPlenaryFasterMediaV2 ==
    /\ last' = [op |-> "plenaryFasterMediaV2", args |-> last.args,
                value |-> plenaryFasterMediaV2(calcCMI, last.args.idleSlope,
                                               last.args.streamMaxFrame)]
    /\ UNCHANGED <<net, defaultLinks, calcCMI>>

\* the caller's list after runAlgorithmsForPort: sorted() builds a new list, and
\* reverse() reverses that new list
callerInputIdleSlopes(inputIdleSlopes) ==
    inputIdleSlopes

DoRunAlgorithmsForPort ==
    \E c \in {runAlgorithmsForPort(calcCMI, last.args.idleSlope, last.args.streamMaxFrame,
                                   last.args.classMaxFrame, last.args.nrInputLinks,
                                   last.args.inputIdleSlopes)} :
        /\ last' = [op |-> "runAlgorithmsForPort", args |-> last.args,
                    inputIdleSlopes |-> callerInputIdleSlopes(last.args.inputIdleSlopes),
                    raised |-> c.raised,
                    value |-> IF c.raised THEN getEmptyResultDict ELSE c.value]
        /\ UNCHANGED <<net, defaultLinks, calcCMI>>

FormulaNext ==
    \/ DoBaStandard
    \/ DoPlenaryFasterMediaV2
    \/ DoRunAlgorithmsForPort

FormulaSpec ==
    FormulaInit /\ [][FormulaNext]_vars

-----------------------------------------------------------------------------
(* DefaultsSpec: two Networks built by Network(), next to the Network of   *)
(* the analysis; nodes, bridges, links and flows are added to each, and    *)
(* paths are computed on each                                              *)

\* the five lists that are the default argument values of Network.__init__: one
\* registry, made when the class is defined
DefaultLists ==
    "D"

\* x = Network(); y = Network(); and the Network of the analysis
Networks ==
    {"X", "Y", Analysis}

\* the lists a Network object refers to: "self.bridges = bridges" ... binds the lists
\* given, which are the default lists when the arguments are omitted; the analysis
\* passes five lists of its own
listsOf(obj) ==
    IF obj = Analysis THEN Analysis ELSE DefaultLists

\* at most this many entries in the registries, all together
MaxShared ==
    4

DefaultsInit ==
    /\ net = [r \in {Analysis, DefaultLists} |-> Network]
    /\ defaultLinks = <<>>
    /\ calcCMI = R(CMI_CONFIG)
    /\ last = [op |-> "init"]

\* a call, once the registries it leaves are within the bound
WithinShared(call) ==
    /\ call
    /\ entries(net'[Analysis]) + entries(net'[DefaultLists]) <= MaxShared

DoAddNodeTo(obj, node) ==
    /\ net' = [net EXCEPT ![listsOf(obj)] = addNode(@, node)]
    /\ last' = [op |-> "addNode", obj |-> obj, id |-> node]
    /\ UNCHANGED <<defaultLinks, calcCMI>>

DoAddBridgeTo(obj, bridge) ==
    /\ net' = [net EXCEPT ![listsOf(obj)] = addBridge(@, bridge)]
    /\ last' = [op |-> "addBridge", obj |-> obj, id |-> bridge]
    /\ UNCHANGED <<defaultLinks, calcCMI>>

DoAddLinkTo(obj, src, dst) ==
    /\ net' = [net EXCEPT ![listsOf(obj)] =
                  addLink(@, src, dst, LINKSPEED, SWITCH_DELAY, R(0))]
    /\ last' = [op |-> "addLink", obj |-> obj, src |-> src, dst |-> dst]
    /\ UNCHANGED <<defaultLinks, calcCMI>>

DoAddFlowTo(obj, flow) ==
    /\ net' = [net EXCEPT ![listsOf(obj)] = addFlow(@, flow)]
    /\ last' = [op |-> "addFlow", obj |-> obj, src |-> flow.src, dst |-> flow.dst]
    /\ UNCHANGED <<defaultLinks, calcCMI>>

\* calculateShortestPath(src, dst) on obj, for a pair without a cached path: the
\* search, path = Path(src, dst), path.addLinks(..) for each step back, addPath(path).
\* built is path.links as Path(src, dst) leaves it
DoCalculateShortestPathOn(obj, src, dst) ==
    \E c \in {calculateShortestPath(net[listsOf(obj)], listsOf(obj), defaultLinks, src, dst)} :
        /\ lookupPath(net[listsOf(obj)], src, dst) = 0
        /\ net' = [net EXCEPT ![listsOf(obj)] = c.net]
        /\ defaultLinks' = c.dl
        /\ last' = [op |-> "calculateShortestPath", obj |-> obj, src |-> src, dst |-> dst,
                    raised |-> c.raised,
                    built |-> linksOf(PathDefault(src, dst), defaultLinks),
                    links |-> IF c.raised THEN <<>> ELSE linksOf(c.ret, c.dl)]
        /\ UNCHANGED calcCMI

DefaultsNext ==
    \/ \E obj \in Networks, id \in Ids : WithinShared(DoAddNodeTo(obj, id))
    \/ \E obj \in Networks, id \in Ids : WithinShared(DoAddBridgeTo(obj, id))
    \/ \E obj \in Networks, src \in Ids, dst \in Ids :
           /\ src # dst
           /\ WithinShared(DoAddLinkTo(obj, src, dst))
    \/ \E obj \in Networks, src \in Ids, dst \in Ids :
           /\ src # dst
           /\ WithinShared(DoAddFlowTo(obj, Flow(src, dst, 370, 1000, 125, 7)))
    \/ \E obj \in Networks, src \in Ids, dst \in Ids :
           /\ src # dst
           /\ WithinShared(DoCalculateShortestPathOn(obj, src, dst))

DefaultsSpec ==
    DefaultsInit /\ [][DefaultsNext]_vars

-----------------------------------------------------------------------------
(* SearchSpec: one call of calculateShortestPath, step by step, on a        *)
(* network drawn from the link lists over a few node ids: the cache lookup,  *)
(* each pass of "while unvisited", each pass of the walk back, the return    *)

SearchIds ==
    {"N0", "S0", "S1"}

MaxSearchLinks ==
    3

\* the (src, dst) of the links added, one after the other; addLink keeps the first of
\* two links of a pair only, so each pair comes once
LinkLists ==
    UNION {{ps \in [1..k -> SearchIds \X SearchIds] :
               \A i \in 1..k, j \in 1..k : i # j => ps[i] # ps[j]} :
           k \in 0..MaxSearchLinks}

\* the Network after addLink for each pair of ps
RECURSIVE networkOf(_, _)
networkOf(n, ps) ==
    IF ps = <<>> THEN n
    ELSE networkOf(addLink(n, Head(ps)[1], Head(ps)[2], LINKSPEED, SWITCH_DELAY, R(0)),
                   Tail(ps))

\* a faulty pass of "while unvisited", which does not record the node it takes from
\* the frontier as visited
visitUnrecorded(st, links) ==
    scanLinks([st EXCEPT !.unvisited = Tail(@)], links, 1, Head(st.unvisited))

\* one pass of "while unvisited": the first node of the frontier is taken from it,
\* recorded as visited, and the links are scanned
visit(st, links) ==
    scanLinks([st EXCEPT !.unvisited = Tail(@), !.visited = Append(@, Head(st.unvisited))],
              links, 1, Head(st.unvisited))

\* the call, before its first statement
called(src, dst) ==
    [op |-> "calculateShortestPath", pc |-> "called", src |-> src, dst |-> dst,
     st |-> [unvisited |-> <<>>, visited |-> <<>>, distances |-> <<>>, previous |-> <<>>],
     current |-> dst, steps |-> 0]

SearchInit ==
    /\ \E ps \in LinkLists : net = [r \in {Analysis} |-> networkOf(Network, ps)]
    /\ defaultLinks = <<>>
    /\ calcCMI = R(CMI_CONFIG)
    /\ \E src \in SearchIds, dst \in SearchIds : last = called(src, dst)

\* "path = self.lookupPath(src, dst); if path is not None: return path", and the
\* first values of the search
DoLookupCached ==
    /\ last.pc = "called"
    /\ last' = IF lookupPath(net[Analysis], last.src, last.dst) # 0
               THEN [last EXCEPT !.pc = "done"]
               ELSE [last EXCEPT !.pc = "search",
                                 !.st = [unvisited |-> <<last.src>>, visited |-> <<>>,
                                         distances |-> (last.src :> 0), previous |-> <<>>]]
    /\ UNCHANGED <<net, defaultLinks, calcCMI>>

\* one pass of "while unvisited"
DoVisit ==
    /\ last.pc = "search"
    /\ last.st.unvisited # <<>>
    /\ last' = [last EXCEPT !.st = visit(last.st, net[Analysis].links)]
    /\ UNCHANGED <<net, defaultLinks, calcCMI>>

\* "path = Path(src, dst); current = dst", the frontier being empty
DoBuildPath ==
    /\ last.pc = "search"
    /\ last.st.unvisited = <<>>
    /\ last' = [last EXCEPT !.pc = "walk", !.current = last.dst]
    /\ UNCHANGED <<net, defaultLinks, calcCMI>>

\* one pass of "while current != src": previous[current] is a KeyError when the search
\* did not reach current
DoStepBack ==
    /\ last.pc = "walk"
    /\ last.current # last.src
    /\ IF last.current \notin DOMAIN last.st.previous
       THEN /\ last' = [last EXCEPT !.pc = "raised"]
            /\ UNCHANGED defaultLinks
       ELSE /\ defaultLinks' =
                   addLinks(defaultLinks,
                            LinkRef(Analysis,
                                    net[Analysis].links[getLink(net[Analysis],
                                                                last.st.previous[last.current],
                                                                last.current)]))
            /\ last' = [last EXCEPT !.current = last.st.previous[last.current],
                                    !.steps = @ + 1]
    /\ UNCHANGED <<net, calcCMI>>

\* "self.addPath(path); return path", the walk back being at src
DoAddPathAndReturn ==
    /\ last.pc = "walk"
    /\ last.current = last.src
    /\ net' = [net EXCEPT ![Analysis] = addPath(@, PathDefault(last.src, last.dst))]
    /\ last' = [last EXCEPT !.pc = "done"]
    /\ UNCHANGED <<defaultLinks, calcCMI>>

SearchNext ==
    \/ DoLookupCached
    \/ DoVisit
    \/ DoBuildPath
    \/ DoStepBack
    \/ DoAddPathAndReturn

SearchSpec ==
    SearchInit /\ [][SearchNext]_vars

\* the statements of a call run one after the other until the call ends
SearchFairSpec ==
    SearchSpec /\ WF_vars(SearchNext)

-----------------------------------------------------------------------------
(* Claims about the path search and its cache (PathSpec)                   *)

\* the ids within k links of src, by the links of the registry
RECURSIVE within(_, _, _)
within(links, src, k) ==
    IF k = 0 THEN {src}
    ELSE LET near == within(links, src, k - 1)
         IN  near \cup {links[i].dst : i \in {j \in 1..Len(links) : links[j].src \in near}}

\* the minimum number of links from src to dst, dst being reachable
minLinks(links, src, dst) ==
    CHOOSE k \in 0..Len(links) :
        /\ dst \in within(links, src, k)
        /\ \A j \in 0..(k - 1) : dst \notin within(links, src, j)

\* C1: a calculateShortestPath(src, dst) that computed a path (dst reachable, no
\* path cached for the pair) returned a Path with as many links as the minimum
\* number of links from src to dst
C1_HopCountIsMinimum ==
    (last.op = "calculateShortestPath" /\ ~last.raised /\ ~last.cached)
        => Len(last.links) = minLinks(net[Analysis].links, last.src, last.dst)

\* a second computed path, for another pair, came back longer than the minimum
C1_SecondPathTooLong ==
    /\ last.op = "calculateShortestPath" /\ ~last.raised /\ ~last.cached
    /\ Len(net[Analysis].paths) = 2
    /\ last.src # last.dst
    /\ Len(last.links) > minLinks(net[Analysis].links, last.src, last.dst)

\* the link set of the cached path for (src, dst), as lookupPath returns it
cachedLinks(n, dl, src, dst) ==
    pairsOf(linksOf(n.paths[lookupPath(n, src, dst)], dl))

\* C2: after calculateShortestPath(src, dst) returned a path, whatever call comes
\* next, the path cached for (src, dst) has the set of links that call returned
C2_CachedPathKeepsLinks ==
    [][(last.op = "calculateShortestPath" /\ ~last.raised)
          => cachedLinks(net'[Analysis], defaultLinks', last.src, last.dst)
                 = pairsOf(last.links)]_vars

\* a lookupPath found the path of an earlier calculateShortestPath with a link
\* that is no link of a route from its src to its dst
C2_LookupSeesForeignLink ==
    /\ last.op = "lookupPath" /\ last.found
    /\ net[Analysis].paths[lookupPath(net[Analysis], last.src, last.dst)].shared
    /\ last.src # last.dst
    /\ \E i \in 1..Len(last.links) : last.links[i].dst = last.src

\* the nodes that directed links lead to from the nodes of seen
RECURSIVE reachableFrom(_, _)
reachableFrom(n, seen) ==
    IF \E i \in 1..Len(n.links) : n.links[i].src \in seen /\ n.links[i].dst \notin seen
    THEN reachableFrom(n, seen \cup {n.links[i].dst : i \in {k \in 1..Len(n.links) :
                                                              n.links[k].src \in seen}})
    ELSE seen

\* C20: calculateShortestPath(src, dst) with src # dst, no path cached for the pair and
\* dst not reachable from src over the directed links raises, and leaves the path
\* cache, the link registry and the links of every cached path as they were, so that
\* lookupPath(src, dst) does not find a path afterwards either
C20_UnreachableRaisesAndChangesNothing ==
    [][(/\ last'.op = "calculateShortestPath"
        /\ last'.src # last'.dst
        /\ lookupPath(net[Analysis], last'.src, last'.dst) = 0
        /\ last'.dst \notin reachableFrom(net[Analysis], {last'.src}))
       => /\ last'.raised
          /\ net' = net
          /\ defaultLinks' = defaultLinks
          /\ lookupPath(net'[Analysis], last'.src, last'.dst) = 0]_vars

\* calculateShortestPath raised for a dst that no link leads to from src, in a network
\* with links and with a cached path of another pair
C20_RaisedForUnreachable ==
    /\ last.op = "calculateShortestPath"
    /\ last.raised
    /\ last.src # last.dst
    /\ last.dst \notin reachableFrom(net[Analysis], {last.src})
    /\ net[Analysis].links # <<>>
    /\ net[Analysis].paths # <<>>
    /\ lookupPath(net[Analysis], last.src, last.dst) = 0

-----------------------------------------------------------------------------
(* Claims about the registries (Spec)                                      *)

\* C5: an addNode, addBridge, addLink or addFlow for an id or an ordered pair the
\* registry already holds leaves every registry as it was, whatever rate, delay,
\* idle slope, size or period the call passes
C5_RepeatedInsertionIsNoOp ==
    [][(last'.op \in {"addNode", "addBridge", "addLink", "addFlow"} /\ last'.present)
          => net' = net]_vars

\* an addLink for a pair already there passed another rate than the link has
C5_RepeatedAddLinkOtherRate ==
    /\ last.op = "addLink" /\ last.present
    /\ net[Analysis].links[getLink(net[Analysis], last.src, last.dst)].rate # last.rate

\* C6: at most one Link, one Flow and one cached Path per ordered (src, dst) pair
C6_OnePerOrderedPair ==
    LET n == net[Analysis]
        alike(s) == {<<i, j>> \in (1..Len(s)) \X (1..Len(s)) :
                        i # j /\ s[i].src = s[j].src /\ s[i].dst = s[j].dst}
    IN  /\ alike(n.links) = {}
        /\ alike(n.flows) = {}
        /\ alike(n.paths) = {}

\* an addPath came for a pair whose path is cached, the registry holding links too
C6_RepeatedAddPath ==
    /\ last.op = "addPath" /\ last.present
    /\ net[Analysis].links # <<>>
    /\ net[Analysis].paths # <<>>

\* C7: addBidirectionalLink(a, b, rate, delay, idleSlope), a and b different and
\* neither direction linked before, appends a record for (a, b) and one for
\* (b, a), both with the rate, delay and idle slope passed, and nothing else;
\* setLinkIdleSlope(a, b, x) sets the idle slope of the link for (a, b) and leaves
\* every other link and registry alone, and changes nothing when (a, b) has no link
C7_BidirectionalLinkAndIdleSlope ==
    [][LET n == net[Analysis]
           m == net'[Analysis]
       IN  /\ (/\ last'.op = "addBidirectionalLink"
               /\ last'.src # last'.dst
               /\ ~last'.present)
                  => m = [n EXCEPT !.links = @ \o
                            <<Link(last'.src, last'.dst, last'.rate, last'.delay,
                                   last'.idleSlope),
                              Link(last'.dst, last'.src, last'.rate, last'.delay,
                                   last'.idleSlope)>>]
           /\ last'.op = "setLinkIdleSlope"
                  => /\ m = [n EXCEPT !.links = m.links]
                     /\ Len(m.links) = Len(n.links)
                     /\ \A i \in 1..Len(n.links) :
                            m.links[i] = IF isLinkFor(n.links[i], last'.src, last'.dst)
                                         THEN [n.links[i] EXCEPT
                                                  !.idleSlope = last'.idleSlope]
                                         ELSE n.links[i]
                     /\ ~last'.present => m = n]_vars

\* setLinkIdleSlope(a, b, x) came with both directions linked at one rate, and the
\* link for (b, a) has another idle slope than x
C7_SlopeSetOneWay ==
    LET n == net[Analysis]
        f == getLink(n, last.src, last.dst)
        g == getLink(n, last.dst, last.src)
    IN  /\ last.op = "setLinkIdleSlope" /\ last.present
        /\ last.src # last.dst
        /\ g # 0
        /\ n.links[f].rate = n.links[g].rate
        /\ n.links[f].idleSlope = last.idleSlope
        /\ n.links[g].idleSlope # last.idleSlope

\* C7 as stated: after any addBidirectionalLink(a, b, ...) with a and b different,
\* the records for (a, b) and for (b, a) are there with the same rate and delay
C7_TwoRecordsAlike ==
    [][(last'.op = "addBidirectionalLink" /\ last'.src # last'.dst)
          => LET m == net'[Analysis]
                 f == getLink(m, last'.src, last'.dst)
                 g == getLink(m, last'.dst, last'.src)
             IN  /\ f # 0
                 /\ g # 0
                 /\ m.links[f].rate = m.links[g].rate
                 /\ m.links[f].delay = m.links[g].delay]_vars

-----------------------------------------------------------------------------
(* Claims about the end-to-end delay (ScenarioSpec)                        *)

\* the links of the cached path of the k-th flow
flowLinks(k) ==
    LET n == net[Analysis]
        p == lookupPath(n, n.flows[k].src, n.flows[k].dst)
    IN  IF p = 0 THEN <<>> ELSE linksOf(n.paths[p], defaultLinks)

\* what calculateQueueDelayForLink(link, flow) returns for the i-th link of ls
queueDelayOf(ls, i, flow) ==
    calculateQueueDelayForLink(net[Analysis], calcCMI, deref(net, ls[i]), flow,
                               NoClassMaxFrame)

\* the values for key of the queue delays of the links of ls from the i-th on, summed
RECURSIVE queueDelaySum(_, _, _, _)
queueDelaySum(ls, i, flow, key) ==
    IF i > Len(ls) THEN R(0)
    ELSE RAdd(queueDelayOf(ls, i, flow).value[key], queueDelaySum(ls, i + 1, flow, key))

bridgeSourced(ls) ==
    Cardinality({i \in 1..Len(ls) : InSeq(ls[i].src, net[Analysis].bridges)})

\* C3: calculateEndToEndDelayForFlow(flow), the flow's cached path having k links,
\* fails exactly when calculateQueueDelayForLink fails for one of them, and else
\* returns for each of the seven keys the sum of the k queue delays, plus k times
\* (flow.size * 8 + IFG) / linkspeed, plus one switch delay for each link of the
\* path whose source is a bridge
C3_EndToEndIsSumOverLinks ==
    last.op = "calculateEndToEndDelayForFlow"
        => LET flow == net[Analysis].flows[last.flow]
               ls   == flowLinks(last.flow)
               k    == Len(ls)
           IN  /\ last.raised <=> \E i \in 1..k : queueDelayOf(ls, i, flow).raised
               /\ ~last.raised =>
                      \A key \in Keys :
                          last.value[key] =
                              RAdd(RAdd(queueDelaySum(ls, 1, flow, key),
                                        RMul(R(k), RDiv(R(flow.size * 8 + IFG),
                                                        R(LINKSPEED)))),
                                   RMul(R(bridgeSourced(ls)), R(SWITCH_DELAY)))

\* a delay came back for a flow over three links or more, the first from an end
\* node and the others from bridges, with queue delay in it
C3_DelayOverBridges ==
    /\ last.op = "calculateEndToEndDelayForFlow" /\ ~last.raised
    /\ Len(flowLinks(last.flow)) >= 3
    /\ bridgeSourced(flowLinks(last.flow)) = Len(flowLinks(last.flow)) - 1
    /\ \A key \in Keys : RLess(R(0), queueDelaySum(flowLinks(last.flow), 1,
                                                   net[Analysis].flows[last.flow], key))

\* the case of C4: SmallEval, the delay of its flow asked for with 48.832 Mbit/s
\* on the four links of the route
smallEvalCase ==
    /\ isSmallEval
    /\ last.op = "calculateEndToEndDelayForFlow" /\ ~last.raised
    /\ net[Analysis].flows[last.flow].src = "N0"
    /\ net[Analysis].flows[last.flow].dst = "N2"
    /\ \A i \in 1..Len(SmallEvalRoute) :
           net[Analysis].links[getLink(net[Analysis], SmallEvalRoute[i][1],
                                       SmallEvalRoute[i][2])].idleSlope = Rat(6104, 125)

\* hops times the per-hop Standard-BA value for 48.832 Mbit/s and 750 bytes, plus 4
\* times the transmission delay, plus the switch delay of the three bridge hops
smallEvalBound(hops) ==
    RAdd(RAdd(RMul(R(hops), baStandard(R(CMI_CONFIG), Rat(6104, 125), 750 * 8 + IFG)),
              RMul(R(4), RDiv(R(750 * 8 + IFG), R(LINKSPEED)))),
         RMul(R(3), R(SWITCH_DELAY)))

\* C4: in SmallEval with 48.832 Mbit/s on the four links of the route, the
\* baStandard value of the end-to-end delay is 3 times the per-hop Standard-BA
\* value (the hop from N0, an end node, has no queue delay), plus 4 times the
\* transmission delay, plus one switch delay for each of the 3 bridge hops
C4_ThreeQueueingHops ==
    smallEvalCase => last.value["baStandard"] = smallEvalBound(3)

\* the delay of the SmallEval flow came back, with the per-hop value positive
C4_SmallEvalDelayReturned ==
    /\ smallEvalCase
    /\ Len(flowLinks(last.flow)) = 4
    /\ RLess(R(0), baStandard(R(CMI_CONFIG), Rat(6104, 125), 750 * 8 + IFG))

\* C4 as stated: the baStandard value is 4 times the per-hop value, plus 4 times
\* the transmission delay, plus one switch delay per bridge hop
C4_FourQueueingHops ==
    smallEvalCase => last.value["baStandard"] = smallEvalBound(4)

-----------------------------------------------------------------------------
(* Claims about idle slopes and input links (SlopeSpec)                    *)

RECURSIVE sumOf(_, _)
sumOf(f, S) ==
    IF S = {} THEN 0
    ELSE LET x == CHOOSE y \in S : TRUE
         IN  f[x] + sumOf(f, S \ {x})

\* the registered flows of n whose cached path has a link for (src, dst)
flowsOver(n, dl, src, dst) ==
    {k \in 1..Len(n.flows) :
        LET p == lookupPath(n, n.flows[k].src, n.flows[k].dst)
        IN  /\ p # 0
            /\ <<src, dst>> \in pairsOf(linksOf(n.paths[p], dl))}

\* the sum of (flow.size * 8 + IFG) / cmi over those flows
reservation(n, dl, src, dst, cmi) ==
    RDiv(R(sumOf([k \in 1..Len(n.flows) |-> n.flows[k].size * 8 + IFG],
                 flowsOver(n, dl, src, dst))),
         cmi)

\* C8: after calculateLinkIdleSlopesFromFlows(cmi) the idle slope of every link is
\* the sum of (flow.size * 8 + IFG) / cmi over the registered flows whose cached
\* path has the link, 0 for a link of no such path, above the rate of the link or
\* not
C8_IdleSlopesAreFlowSums ==
    [][last'.op = "calculateLinkIdleSlopesFromFlows"
          => \A i \in 1..Len(net'[Analysis].links) :
                 net'[Analysis].links[i].idleSlope =
                     reservation(net[Analysis], defaultLinks,
                                 net[Analysis].links[i].src, net[Analysis].links[i].dst,
                                 last'.cmi)]_vars

\* calculateLinkIdleSlopesFromFlows failed, and a link over which a flow is routed
\* has an idle slope that is not the sum
C8_FailedAndSlopesStale ==
    /\ last.op = "calculateLinkIdleSlopesFromFlows" /\ last.raised
    /\ \E i \in 1..Len(net[Analysis].links) :
           LET l == net[Analysis].links[i]
           IN  /\ flowsOver(net[Analysis], defaultLinks, l.src, l.dst) # {}
               /\ l.idleSlope # reservation(net[Analysis], defaultLinks, l.src, l.dst,
                                            last.cmi)

\* the links l of the registry with l.dst = link.src that are not the reverse of link
inputLinksOf(n, src, dst) ==
    SelectSeq(n.links, LAMBDA l : l.dst = src /\ ~(l.src = dst /\ l.dst = src))

\* C9: getInputIdleSlopes(L) returns the idle slopes of the links l with
\* l.dst = L.src other than the reverse of L, one entry for each, in the order of
\* the registry; getNumInputLinks(L) returns their number, which is the length of
\* that list
C9_InputLinksExceptReverse ==
    LET n      == net[Analysis]
        inputs == inputLinksOf(n, last.src, last.dst)
    IN  /\ last.op = "getInputIdleSlopes"
               => /\ Len(last.ret) = Len(inputs)
                  /\ \A j \in 1..Len(inputs) : last.ret[j] = inputs[j].idleSlope
        /\ (last.op = "getNumInputLinks" /\ ~last.only)
               => /\ ~last.raised
                  /\ last.ret = Len(inputs)
                  /\ last.ret = Len(getInputIdleSlopes(n, n.links[getLink(n, last.src,
                                                                           last.dst)]))

\* the input idle slopes came back for a link with a reverse, two or more of them
\* and not all the same
C9_SeveralInputLinks ==
    /\ last.op = "getInputIdleSlopes"
    /\ getLink(net[Analysis], last.dst, last.src) # 0
    /\ Len(last.ret) >= 2
    /\ \E j \in 1..Len(last.ret) : last.ret[j] # last.ret[1]

\* C10: existsFlowOnLink(link) returns whether some registered flow's cached path
\* has a link for (link.src, link.dst); getNumInputLinks(link, True) returns the
\* number of input links of link for which that is so; neither fails
C10_FlowOnLinkAnswered ==
    LET n == net[Analysis]
    IN  /\ last.op = "existsFlowOnLink"
               => /\ ~last.raised
                  /\ last.ret = (flowsOver(n, defaultLinks, last.src, last.dst) # {})
        /\ (last.op = "getNumInputLinks" /\ last.only)
               => /\ ~last.raised
                  /\ last.ret = Len(SelectSeq(inputLinksOf(n, last.src, last.dst),
                                       LAMBDA l : flowsOver(n, defaultLinks, l.src, l.dst)
                                                      # {}))

\* existsFlowOnLink failed for a link over which a registered flow is routed
C10_FailedWithFlowOnLink ==
    /\ last.op = "existsFlowOnLink" /\ last.raised
    /\ flowsOver(net[Analysis], defaultLinks, last.src, last.dst) # {}

-----------------------------------------------------------------------------
(* Claims about the queries of the analysis (BuildSpec)                    *)

\* C11: in a network with no registered flows findClassMaxFrame() returns 0, and
\* calculateQueueDelayForLink(link, flow), for any link of the network and any Flow
\* passed, returns the map with all seven values zero
C11_ZeroFlowQueriesAreZero ==
    net[Analysis].flows = <<>> =>
        /\ last.op = "findClassMaxFrame" => last.ret = 0
        /\ last.op = "calculateQueueDelayForLink" =>
               ~last.raised /\ last.value = getEmptyResultDict

\* no flow is registered, and the queue delay of a link that leaves a bridge was
\* asked for: the call raised or returned a map that is not all zero
C11_BridgeLinkAskedWithoutFlows ==
    /\ net[Analysis].flows = <<>>
    /\ last.op = "calculateQueueDelayForLink"
    /\ InSeq(last.src, net[Analysis].bridges)
    /\ last.raised \/ last.value # getEmptyResultDict

\* C12: calculateQueueDelayForLink(link, flow) returns the all-zero seven-key map, and
\* raises nothing, whenever link.src is a registered end node, whatever the idle slope
\* of the link (0 too), the size of the flow and the number of input links
C12_EndNodeLinkHasNoQueueDelay ==
    (last.op = "calculateQueueDelayForLink" /\ InSeq(last.src, net[Analysis].nodes)) =>
        ~last.raised /\ last.value = getEmptyResultDict

\* the queue delay was asked for a link that leaves an end node, has idle slope 0 and
\* has an input link
C12_EndNodeLinkWithInputAsked ==
    /\ last.op = "calculateQueueDelayForLink"
    /\ InSeq(last.src, net[Analysis].nodes)
    /\ \E i \in 1..Len(net[Analysis].links) :
           /\ isLinkFor(net[Analysis].links[i], last.src, last.dst)
           /\ net[Analysis].links[i].idleSlope = R(0)
           /\ getNumInputLinks(net[Analysis], net[Analysis].links[i], FALSE).ret >= 1

\* C13: calculateEndToEndDelayForFlow(flow), for a flow whose (src, dst) has no cached
\* path, returns the map with all seven values zero, raises nothing, and leaves the
\* path cache (and the rest of the network) as it was, dst reachable or not
C13_NoCachedPathGivesZeros ==
    [][(/\ last'.op = "calculateEndToEndDelayForFlow"
        /\ lookupPath(net[Analysis], last'.src, last'.dst) = 0)
       => /\ ~last'.raised
          /\ last'.value = getEmptyResultDict
          /\ net' = net
          /\ defaultLinks' = defaultLinks]_vars

\* the end-to-end delay was asked for a flow with no cached path whose destination is
\* within three links of its source
C13_ReachableWithoutCachedPath ==
    /\ last.op = "calculateEndToEndDelayForFlow"
    /\ lookupPath(net[Analysis], last.src, last.dst) = 0
    /\ last.dst \in within(net[Analysis].links, last.src, 3)
    /\ last.src # last.dst

\* C14: when calculateEndToEndDelays returns, the CMI of the formula engine is the CMI
\* the analysis was constructed with, for useFlowIntervalAsCMI true and false, any
\* number of flows and any periods; with useFlowIntervalAsCMI false setCMI is not
\* called at any point of the call
C14_CMIConfiguredOnReturn ==
    (last.op = "calculateEndToEndDelays" /\ ~last.raised) =>
        /\ calcCMI = R(CMI_CONFIG)
        /\ ~last.use => last.cmis = <<>>

\* calculateEndToEndDelays(False) returned with a dictionary for a flow while the CMI
\* of the formula engine is a flow's period, left by an earlier call that raised
C14_ReturnedWithFlowPeriodAsCMI ==
    /\ last.op = "calculateEndToEndDelays"
    /\ ~last.raised
    /\ ~last.use
    /\ last.value # <<>>
    /\ calcCMI # R(CMI_CONFIG)
    /\ \E k \in 1..Len(net[Analysis].flows) : calcCMI = R(net[Analysis].flows[k].period)

\* what calculateEndToEndDelayForFlow gives for the k-th flow on its own, the CMI of
\* the formula engine being cmi
aloneDelay(k, cmi) ==
    calculateEndToEndDelayForFlow(net, defaultLinks, cmi, net[Analysis].flows[k])

\* C15: a failure while computing one flow does not abort the batch:
\* calculateEndToEndDelays still returns, and the map it returns holds the result of
\* every registered flow whose own calculation does not fail
C15_BatchSurvivesFlowFailure ==
    (last.op = "calculateEndToEndDelays" /\ ~last.use) =>
        /\ ~last.raised
        /\ \A k \in 1..Len(net[Analysis].flows) :
               ~aloneDelay(k, calcCMI).raised =>
                   /\ k \in DOMAIN last.value
                   /\ last.value[k] = aloneDelay(k, calcCMI).value

\* calculateEndToEndDelays(False) raised, for a flow whose path has a link leaving a
\* bridge with idle slope 0, and returned nothing, while the calculation of another
\* registered flow does not fail
C15_BatchAbortedByOneFlow ==
    /\ last.op = "calculateEndToEndDelays"
    /\ ~last.use
    /\ last.raised
    /\ last.value = <<>>
    /\ \E k \in 1..Len(net[Analysis].flows) : ~aloneDelay(k, calcCMI).raised
    /\ \E k \in 1..Len(net[Analysis].flows) : aloneDelay(k, calcCMI).raised

\* C21: calculateEndToEndDelays(True) stores for each registered flow what
\* calculateEndToEndDelayForFlow(flow) returns when the CMI of the formula engine is
\* that flow's own period, and sets the CMI to each flow's period in registry order,
\* then to the configured CMI
C21_EachFlowComputedWithItsOwnPeriod ==
    (last.op = "calculateEndToEndDelays" /\ last.use /\ ~last.raised) =>
        /\ Len(last.value) = Len(net[Analysis].flows)
        /\ \A k \in 1..Len(net[Analysis].flows) :
               last.value[k] = aloneDelay(k, R(net[Analysis].flows[k].period)).value
        /\ last.cmis = [k \in 1..Len(net[Analysis].flows) + 1 |->
                           IF k <= Len(net[Analysis].flows)
                           THEN R(net[Analysis].flows[k].period) ELSE R(CMI_CONFIG)]

\* calculateEndToEndDelays(True) returned for flows of different periods, one of them
\* not the configured CMI, and a result differs from what the configured CMI or the
\* other flow's period gives
C21_ReturnedForFlowsOfDifferentPeriods ==
    /\ last.op = "calculateEndToEndDelays"
    /\ last.use
    /\ ~last.raised
    /\ \E j \in 1..Len(net[Analysis].flows), k \in 1..Len(net[Analysis].flows) :
           /\ j < k
           /\ net[Analysis].flows[j].period # net[Analysis].flows[k].period
           /\ net[Analysis].flows[k].period # CMI_CONFIG
           /\ last.value[k] # aloneDelay(k, R(CMI_CONFIG)).value
           /\ last.value[k] # aloneDelay(k, R(net[Analysis].flows[j].period)).value

\* C24: calculateQueueDelayForLink and calculateEndToEndDelayForFlow are read-only: when
\* either has returned, the registries of nodes, bridges, links and flows, the idle
\* slope of every link, the path cache, the links of every cached path and the CMI of
\* the formula engine are as they were before the call
C24_QueriesAreReadOnly ==
    [][(/\ last'.op \in {"calculateQueueDelayForLink", "calculateEndToEndDelayForFlow"}
        /\ ~last'.raised)
       => /\ net' = net
          /\ defaultLinks' = defaultLinks
          /\ calcCMI' = calcCMI]_vars

\* calculateEndToEndDelayForFlow returned a delay over the cached path of a registered
\* flow whose period is not the CMI of the formula engine, with idle slopes set
C24_DelayReturnedOverCachedPath ==
    /\ last.op = "calculateEndToEndDelayForFlow"
    /\ ~last.raised
    /\ InSeq(last.flow, net[Analysis].flows)
    /\ R(last.flow.period) # calcCMI
    /\ lookupPath(net[Analysis], last.src, last.dst) # 0
    /\ RLess(R(0), last.value.qStandardL3V2)
    /\ \E i \in 1..Len(net[Analysis].links) : RLess(R(0), net[Analysis].links[i].idleSlope)

-----------------------------------------------------------------------------
(* Claims about the containers of Networks and Paths (DefaultsSpec)        *)

\* the registries of the Network object obj in the state before the step
registriesOf(obj) ==
    net[listsOf(obj)]

\* C22: a Path built without a links argument has no links, adding links to one Path
\* does not change the links of another Path, and adding a node, bridge, link, flow or
\* path to one default-constructed Network does not change another Network
C22_ContainersOfTheirOwn ==
    [][/\ (last'.op = "calculateShortestPath" /\ ~last'.raised) =>
              /\ last'.built = <<>>
              /\ \A r \in DOMAIN net : \A i \in 1..Len(net[r].paths) :
                     linksOf(net'[r].paths[i], defaultLinks')
                         = linksOf(net[r].paths[i], defaultLinks)
       /\ last'.op \in {"addNode", "addBridge", "addLink", "addFlow", "calculateShortestPath"} =>
              \A other \in Networks \ {last'.obj} :
                  net'[listsOf(other)] = registriesOf(other)]_vars

\* a node was added to the Network x only, the Network y holds it too, and the
\* Network of the analysis does not
C22_NodeOfOneNetworkInAnother ==
    /\ last.op = "addNode"
    /\ last.obj = "X"
    /\ InSeq(last.id, registriesOf("Y").nodes)
    /\ ~InSeq(last.id, registriesOf(Analysis).nodes)

-----------------------------------------------------------------------------
(* Claims about the steps of the path search (SearchFairSpec)              *)

\* the distinct node ids of the call: its src and dst and the ends of the links
nodeIds ==
    {last.src, last.dst}
        \cup {net[Analysis].links[i].src : i \in 1..Len(net[Analysis].links)}
        \cup {net[Analysis].links[i].dst : i \in 1..Len(net[Analysis].links)}

\* each node was taken from the frontier at most once
takenOnce ==
    \A i \in 1..Len(last.st.visited), j \in 1..Len(last.st.visited) :
        i # j => last.st.visited[i] # last.st.visited[j]

\* C23: calculateShortestPath(src, dst) ends on every network in which dst is reachable
\* from src, with cycles, links in both directions and self-loops: each node is taken
\* from the frontier at most once, and the walk back from dst is at src after at most
\* (number of distinct node ids - 1) steps
C23_SearchEnds ==
    /\ [](/\ takenOnce
          /\ last.steps <= Cardinality(nodeIds) - 1)
    /\ (last.pc = "called" /\ last.dst \in reachableFrom(net[Analysis], {last.src}))
           ~> (last.pc = "done" /\ last.current = last.src)

\* the call returned in a network with a self-loop at src and links from src to dst
\* and back, after one step back and with both nodes taken from the frontier once
C23_ReturnedOverCycleAndSelfLoop ==
    /\ last.pc = "done"
    /\ last.src # last.dst
    /\ last.steps = 1
    /\ Len(last.st.visited) = 2
    /\ getLink(net[Analysis], last.src, last.src) # 0
    /\ getLink(net[Analysis], last.src, last.dst) # 0
    /\ getLink(net[Analysis], last.dst, last.src) # 0
    /\ Len(defaultLinks) = 1

-----------------------------------------------------------------------------
(* Claims about the formulas (FormulaSpec)                                 *)

\* the formula that last was computed with, at another idle slope
sameFormulaAt(idleSlope) ==
    IF last.op = "baStandard"
    THEN baStandard(calcCMI, idleSlope, last.args.streamMaxFrame)
    ELSE plenaryFasterMediaV2(calcCMI, idleSlope, last.args.streamMaxFrame)

\* C16 as stated: for a fixed CMI and stream max frame and idle slopes s1 < s2 below
\* the linkspeed, baStandard and plenaryFasterMediaV2 at s2 are at most their values
\* at s1
C16_DelayNeverGrowsWithIdleSlope ==
    last.op \in {"baStandard", "plenaryFasterMediaV2"} =>
        \A s2 \in IdleSlopes :
            RLess(last.args.idleSlope, s2) => ~RLess(last.value, sameFormulaAt(s2))

\* C16, amended: for a fixed CMI and stream max frame and idle slopes s1 < s2 below the
\* linkspeed, baStandard at s2 is at least baStandard at s1, and equal to it when
\* s2 * CMI is at most the stream max frame (the catch-up term is clamped at both)
C16_BaStandardNeverShrinksWithIdleSlope ==
    last.op = "baStandard" =>
        \A s2 \in IdleSlopes :
            RLess(last.args.idleSlope, s2) =>
                /\ ~RLess(sameFormulaAt(s2), last.value)
                /\ ~RLess(R(last.args.streamMaxFrame), RMul(s2, calcCMI)) =>
                       sameFormulaAt(s2) = last.value

\* baStandard was computed at an idle slope, and is larger at a larger one
C16_BaStandardLargerAtLargerIdleSlope ==
    /\ last.op = "baStandard"
    /\ \E s2 \in IdleSlopes :
           /\ RLess(last.args.idleSlope, s2)
           /\ RLess(last.value, sameFormulaAt(s2))


\* C17: each of the seven values runAlgorithmsForPort returns is non-negative, for an
\* idle slope between 0 and the linkspeed, input idle slopes from 0 up to below the
\* linkspeed, max frames of at least IFG bits and an input-link count of 0 or more,
\* the inputs where the clamps fire included
C17_EveryValueNonNegative ==
    last.op = "runAlgorithmsForPort" =>
        /\ ~last.raised
        /\ \A key \in Keys : ~RLess(last.value[key], R(0))

\* runAlgorithmsForPort returned for an idle slope whose reservation in a CMI is
\* smaller than the stream max frame, so both clamps fired
C17_ReturnedWhereClampsFire ==
    /\ last.op = "runAlgorithmsForPort"
    /\ ~last.raised
    /\ RLess(RMul(last.args.idleSlope, calcCMI), R(last.args.streamMaxFrame))
    /\ RLess(RSub(getMaxReservedPlenary(calcCMI, last.args.idleSlope),
                  R(last.args.streamMaxFrame)), R(0))
    /\ last.args.nrInputLinks = 0
    /\ last.value.baStandard =
           RDiv(R(ctMaxFrame + last.args.streamMaxFrame - IFG), R(LINKSPEED))


\* the lists that hold the elements of s, each as often as s does
permutationsOf(s) ==
    {p \in [1..Len(s) -> InputSlopes] :
        \A x \in InputSlopes :
            Cardinality({i \in 1..Len(s) : p[i] = x}) = Cardinality({i \in 1..Len(s) : s[i] = x})}

isAscending(s) ==
    \A i \in 1..Len(s), j \in 1..Len(s) : i < j => ~RLess(s[j], s[i])

isDescending(s) ==
    \A i \in 1..Len(s), j \in 1..Len(s) : i < j => ~RLess(s[i], s[j])

\* C18: in the map runAlgorithmsForPort returns, qStandardL3V2 is the Annex-V2 formula
\* on the input idle slopes in ascending order and qStandardL3V3 the same formula on
\* them in descending order, two entries of the map; the map is the same for every
\* permutation of the caller's list, and the call leaves the caller's list as it was
C18_AscendingAndDescendingOrder ==
    (last.op = "runAlgorithmsForPort" /\ ~last.raised) =>
        /\ {"qStandardL3V2", "qStandardL3V3"} \subseteq DOMAIN last.value
        /\ \A p \in permutationsOf(last.args.inputIdleSlopes) :
               /\ isAscending(p) =>
                      last.value.qStandardL3V2 =
                          qStandardL3V2(last.args.idleSlope, last.args.classMaxFrame, p)
               /\ isDescending(p) =>
                      last.value.qStandardL3V3 =
                          qStandardL3V2(last.args.idleSlope, last.args.classMaxFrame, p)
               /\ runAlgorithmsForPort(calcCMI, last.args.idleSlope,
                                       last.args.streamMaxFrame, last.args.classMaxFrame,
                                       last.args.nrInputLinks, p).value = last.value
        /\ last.inputIdleSlopes = last.args.inputIdleSlopes

\* runAlgorithmsForPort returned for a list given in descending order of two different
\* input idle slopes, and the two entries differ
C18_ReturnedForUnsortedList ==
    /\ last.op = "runAlgorithmsForPort"
    /\ ~last.raised
    /\ Len(last.args.inputIdleSlopes) = 2
    /\ RLess(last.args.inputIdleSlopes[2], last.args.inputIdleSlopes[1])
    /\ last.inputIdleSlopes = last.args.inputIdleSlopes
    /\ last.value.qStandardL3V2 # last.value.qStandardL3V3


\* whether the catch-up term of baStandard is clamped: idleSlope * CMI < streamMaxFrame
clamped(cmi, idleSlope, streamMaxFrame) ==
    RLess(RMul(idleSlope, cmi), R(streamMaxFrame))

\* C19: baStandard(idleSlope, streamMaxFrame) is ctMaxFrame/linkspeed +
\* max(0, CMI - streamMaxFrame/idleSlope) + (streamMaxFrame - IFG)/linkspeed; when
\* idleSlope * CMI < streamMaxFrame the catch-up term is zero and the result is the
\* same for every such idle slope and CMI
C19_BaStandardClosedForm ==
    last.op = "baStandard" =>
        /\ last.value =
               RAdd(RAdd(RDiv(R(ctMaxFrame), R(LINKSPEED)),
                         RMax(R(0), RSub(calcCMI, RDiv(R(last.args.streamMaxFrame),
                                                       last.args.idleSlope)))),
                    RDiv(R(last.args.streamMaxFrame - IFG), R(LINKSPEED)))
        /\ clamped(calcCMI, last.args.idleSlope, last.args.streamMaxFrame) =>
               /\ last.value = RDiv(R(ctMaxFrame + last.args.streamMaxFrame - IFG),
                                    R(LINKSPEED))
               /\ \A cmi \in FormulaCMIs, idleSlope \in IdleSlopes :
                      clamped(cmi, idleSlope, last.args.streamMaxFrame) =>
                          baStandard(cmi, idleSlope, last.args.streamMaxFrame) = last.value

\* baStandard was computed where the catch-up term is clamped, and another idle slope
\* and the other CMI are clamped for the same stream max frame
C19_BaStandardComputedWhereClamped ==
    /\ last.op = "baStandard"
    /\ clamped(calcCMI, last.args.idleSlope, last.args.streamMaxFrame)
    /\ \E cmi \in FormulaCMIs, idleSlope \in IdleSlopes :
           /\ cmi # calcCMI
           /\ idleSlope # last.args.idleSlope
           /\ clamped(cmi, idleSlope, last.args.streamMaxFrame)

=============================================================================
